---- MODULE Spec2Model ----
(***************************************************************************)
(* The Automaton Auditor workflow (src/src/graph.py), its state reducers   *)
(* (src/src/state.py), the detective, judge and chief-justice nodes        *)
(* (src/src/nodes/*.py) as a state machine.                                *)
(*                                                                         *)
(* A run is a sequence of supersteps of the compiled StateGraph: the nodes *)
(* scheduled in a superstep all read the channel values as they were when  *)
(* the superstep started, each returns a partial update (a dict), and the  *)
(* updates are merged into the channels through the reducers that          *)
(* AgentState declares before the next superstep starts.  The channels are *)
(* the keys AgentState declares; an update key that AgentState does not    *)
(* declare has no channel and is not stored.                               *)
(*                                                                         *)
(* Python values: None is the record None; a dict whose iteration order is *)
(* observable is a sequence (criterion_judgments), other dicts are         *)
(* functions; a text is a sequence of fragments.  A local variable that is  *)
(* assigned once and read often is a bound variable:                       *)
(*   CHOOSE r \in { f(x) : x \in {e} } : TRUE    is    x = e; return f(x)   *)
(***************************************************************************)
EXTENDS Integers, Sequences, FiniteSets, TLC

VARIABLES
    state,   \* the AgentState channels of the run: key -> value
    pc,      \* the node (or fan-out) scheduled for the current superstep
    writes,  \* the updates returned so far by the branches of the current
             \* fan-out, in completion order: <<[node, update], ...>>
    route,   \* the last decision of a conditional edge ("none" before any)
    arg,     \* input of the function under test (pure-function specifications)
    ret      \* its result

vars == <<state, pc, writes, route, arg, ret>>

None == [none |-> TRUE]

(***************************************************************************)
(* Bounds of the model.                                                    *)
(***************************************************************************)
NumCriteria == 2      \* rubric dimensions that are modelled
MaxErrors == 5        \* longest evidence-error list given to the routing function
MaxCited == 2         \* longest cited_evidence list given to Synthesis
MaxJudgeErrors == 2   \* longest judge-error list given to the routing function
MaxAttempts == 2      \* largest judge_attempts given to the routing function
MaxBatch == 2         \* most repository references in a batch
MaxSeconds == 2        \* last second the clock reaches
TicksPerSecond == 2    \* instants of the clock within one second

(***************************************************************************)
(* Python helpers.                                                         *)
(***************************************************************************)
\* dict.get(key, default)
Get(d, k, default) == IF k \in DOMAIN d THEN d[k] ELSE default

\* {**left, **right}
DictUnion(left, right) ==
    [k \in (DOMAIN left) \cup (DOMAIN right) |->
        IF k \in DOMAIN right THEN right[k] ELSE left[k]]

\* a or b, for values that are None or an object
Or(a, b) == IF a # None THEN a ELSE b

\* the empty dict / the empty list
Empty == << >>

\* str.lower() on a fragment of text
LowerFragment(f) ==
    CASE f = "Security" -> "security"
      [] f = "SECURITY" -> "security"
      [] f = "Vulnerability" -> "vulnerability"
      [] f = "Bypass" -> "bypass"
      [] f = "Injection" -> "injection"
      [] f = "Git" -> "git"
      [] f = "GIT" -> "git"
      [] f = "ARCHITECTURE_NOTES" -> "architecture_notes"
      [] f = "Architecture_Notes" -> "architecture_notes"
      [] OTHER -> f

\* text.lower()
Lower(text) == [i \in DOMAIN text |-> LowerFragment(text[i])]

\* kw in text   (kw is one fragment)
Contains(text, kw) == \E i \in DOMAIN text : text[i] = kw

\* text[:n]
Truncate(text, n) == IF Len(text) <= n THEN text ELSE SubSeq(text, 1, n)

(***************************************************************************)
(* src/src/state.py                                                        *)
(***************************************************************************)
\* ForensicEvidenceCollection()
EmptyCollection ==
    [git |-> None, code |-> None, pdf |-> None, images |-> None,
     raw_evidence |-> Empty]

\* Evidence.content: Optional[str]; constructing an Evidence with any other
\* content raises a ValidationError
ValidEvidenceContent(content) == content = None \/ content.type = "str"

\* variant: left's component and left's raw entry win
merge_evidences_left_wins(left, right) ==
    IF left = None THEN Or(right, EmptyCollection)
    ELSE IF right = None THEN left
    ELSE [git |-> Or(left.git, right.git),
          code |-> Or(left.code, right.code),
          pdf |-> Or(left.pdf, right.pdf),
          images |-> Or(left.images, right.images),
          raw_evidence |-> DictUnion(right.raw_evidence, left.raw_evidence)]

\* variant: an update that carries no raw evidence is ignored
merge_evidences_skip_empty(left, right) ==
    IF left = None THEN Or(right, EmptyCollection)
    ELSE IF right = None THEN left
    ELSE IF right.raw_evidence = Empty THEN left
    ELSE [git |-> Or(right.git, left.git),
          code |-> Or(right.code, left.code),
          pdf |-> Or(right.pdf, left.pdf),
          images |-> Or(right.images, left.images),
          raw_evidence |-> DictUnion(left.raw_evidence, right.raw_evidence)]

merge_evidences(left, right) ==
    IF left = None THEN Or(right, EmptyCollection)
    ELSE IF right = None THEN left
    ELSE [git |-> Or(right.git, left.git),
          code |-> Or(right.code, left.code),
          pdf |-> Or(right.pdf, left.pdf),
          images |-> Or(right.images, left.images),
          raw_evidence |-> DictUnion(left.raw_evidence, right.raw_evidence)]

\* position of criterion `key` in the ordered dict `judgments`, 0 if absent
KeyIndex(judgments, key) ==
    IF \E i \in DOMAIN judgments : judgments[i].criterion_id = key
    THEN CHOOSE i \in DOMAIN judgments : judgments[i].criterion_id = key
    ELSE 0

\* variant: on a key collision right's judgment replaces left's
MergeIntoReplacing(merged, right) ==
    [i \in DOMAIN merged |->
        IF KeyIndex(right, merged[i].criterion_id) # 0
        THEN right[KeyIndex(right, merged[i].criterion_id)]
        ELSE merged[i]]
    \o SelectSeq(right, LAMBDA j : KeyIndex(merged, j.criterion_id) = 0)

RECURSIVE MergeInto(_, _)
\* the loop of merge_criterion_judgments over right.items()
MergeInto(merged, right) ==
    IF right = Empty THEN merged
    ELSE LET judgment == Head(right)
             i == KeyIndex(merged, judgment.criterion_id)
         IN  CHOOSE r \in
                { MergeInto(m, Tail(right)) :
                    m \in { IF i # 0
                            THEN [merged EXCEPT ![i].opinions = @ \o judgment.opinions]
                            ELSE Append(merged, judgment) } } : TRUE

\* left and right are dicts in every merge: the channel starts as {} and the
\* judges return dicts, so `not left` is `left == {}` and `right or {}` is right
merge_criterion_judgments(left, right) ==
    IF left = Empty THEN right
    ELSE IF right = Empty THEN left
    ELSE MergeInto(left, right)

\* the keys AgentState declares: the channels of the graph
AgentStateKeys ==
    {"repo_url", "pdf_path", "repo_cloned", "temp_dir", "evidences",
     "evidence_errors", "opinions", "criterion_judgments", "final_verdicts",
     "audit_report", "report_path", "trace_id", "errors", "warnings"}

\* variant: evidence_errors declared without its operator.add reducer
ReduceLastValue(k, old, new) ==
    CASE k = "evidences" -> merge_evidences(old, new)
      [] k = "opinions" -> old \o new
      [] k = "criterion_judgments" -> merge_criterion_judgments(old, new)
      [] OTHER -> new

\* the reducer AgentState annotates channel k with (none: the last value)
Reduce(k, old, new) ==
    CASE k = "evidences" -> merge_evidences(old, new)
      [] k \in {"evidence_errors", "opinions"} -> old \o new
      [] k = "criterion_judgments" -> merge_criterion_judgments(old, new)
      [] OTHER -> new

(***************************************************************************)
(* The engine: StateGraph(AgentState) compiled in _build_graph.            *)
(***************************************************************************)
\* merge one node's update into the channels
ApplyUpdate(channels, update) ==
    [k \in DOMAIN channels |->
        IF k \in DOMAIN update THEN Reduce(k, channels[k], update[k])
        ELSE channels[k]]

RECURSIVE ApplyWrites(_, _)
\* merge the updates of a fan-out, in the order given
ApplyWrites(channels, ws) ==
    IF ws = Empty THEN channels
    ELSE CHOOSE r \in
            { ApplyWrites(c, Tail(ws)) :
                c \in { ApplyUpdate(channels, Head(ws).update) } } : TRUE

\* the nodes that run as branches of a fan-out, in the order in which the
\* engine applies the updates of one superstep: by task path (the node name),
\* whatever the order in which the branches completed
TaskOrder ==
    <<"defense", "doc_analyst", "prosecutor", "repo_investigator", "tech_lead",
      "vision_inspector">>

\* variant: the updates are applied in the order in which the branches completed
InCompletionOrder(ws) == ws

\* the updates of a superstep in the order in which the engine applies them
InTaskOrder(ws) ==
    LET present == SelectSeq(TaskOrder, LAMBDA n : \E i \in DOMAIN ws : ws[i].node = n)
    IN  [k \in DOMAIN present |->
            ws[CHOOSE i \in DOMAIN ws : ws[i].node = present[k]]]

\* variant: a failed branch cancels its siblings, whose updates are dropped
MergeFanInCancelling(channels, ws) ==
    LET failed(w) == "evidence_errors" \in DOMAIN w.update
        kept == IF \E i \in DOMAIN ws : failed(ws[i])
                THEN SelectSeq(InTaskOrder(ws), failed)
                ELSE InTaskOrder(ws)
    IN  ApplyWrites(channels, kept)

\* the channels after the updates ws of a fan-out are merged
MergeFanIn(channels, ws) ==
    CHOOSE r \in { ApplyWrites(channels, o) : o \in { InTaskOrder(ws) } } : TRUE

\* the channels after the input of a run is written
InputChannels(input) ==
    [k \in (DOMAIN input) \cap AgentStateKeys |-> input[k]]

(***************************************************************************)
(* Values of the environment: what the tools outside the nodes return.    *)
(***************************************************************************)
\* commit counts analyze_git_history may report
CommitCounts == {0, 1}

\* an Evidence item whose content is a string
StrEvidence(found, location) ==
    [found |-> found, content |-> [type |-> "str"], location |-> location]

\* what the clone and the two analyses of repo_investigator may do
RepoOutcomes ==
    {[ok |-> FALSE]} \cup
    {[ok |-> TRUE, commit_count |-> n, architecture_notes |-> b] :
        n \in CommitCounts, b \in BOOLEAN}

\* what the file system and analyze_pdf may do for doc_analyst:
\* the file is missing, the analysis raises, or it returns its dict with
\* 'images' (always a list) holding images or not
DocOutcomes ==
    {[exists |-> FALSE], [exists |-> TRUE, raises |-> TRUE]} \cup
    {[exists |-> TRUE, raises |-> FALSE, images |-> [type |-> "list", any |-> b]] :
        b \in BOOLEAN}

\* what analyze_diagrams may do for vision_inspector
VisionOutcomes == {[ok |-> FALSE]} \cup {[ok |-> TRUE, image_count |-> n] : n \in {0, 1}}

\* the documents a run may be given
PdfPaths == {None, [path |-> "report.pdf"]}

(***************************************************************************)
(* src/src/nodes/detectives.py                                             *)
(***************************************************************************)
repo_investigator(s, out) ==
    IF out.ok
    THEN [evidences |->
            [git |-> [commit_count |-> out.commit_count],
             code |-> [architecture_notes_exists |-> out.architecture_notes],
             pdf |-> None, images |-> None,
             raw_evidence |->
                [git_commits |-> StrEvidence(TRUE, "git_log"),
                 graph_structure |-> StrEvidence(TRUE, "static_analysis"),
                 state_models |-> StrEvidence(TRUE, "static_analysis")]],
          repo_cloned |-> TRUE,
          temp_dir |-> [path |-> "repo_path"],
          detective_status |-> [repo_investigator |-> "done"]]
    ELSE [evidence_errors |-> <<"Repo investigation failed">>,
          repo_cloned |-> FALSE,
          detective_status |-> [repo_investigator |-> "failed"]]

doc_analyst(s, out) ==
    LET failed == [evidence_errors |-> <<"Document analysis failed">>,
                   detective_status |-> [doc_analyst |-> "failed"]]
    IN
    IF Get(s, "pdf_path", None) = None
    THEN [detective_status |-> [doc_analyst |-> "skipped"]]
    ELSE IF ~out.exists
    THEN [evidence_errors |-> <<"PDF not found">>]
    ELSE IF out.raises
    THEN failed
    \* Evidence(content=images) for 'pdf_images' is built inside the try
    ELSE IF ~ValidEvidenceContent(out.images)
    THEN failed
    ELSE [evidences |->
            [git |-> None, code |-> None,
             pdf |-> [claimed_file_paths |-> Empty],
             images |-> None,
             raw_evidence |->
                [pdf_text |-> StrEvidence(TRUE, "pdf"),
                 pdf_retrieval |-> StrEvidence(TRUE, "pdf_retrieval"),
                 pdf_images |-> [found |-> out.images.any, content |-> out.images,
                                 location |-> "pdf_images"],
                 pdf_chunks |-> StrEvidence(TRUE, "pdf_chunks")]],
          detective_status |-> [doc_analyst |-> "done"]]

vision_inspector(s, out) ==
    IF Get(s, "evidences", None) = None
       \/ Get(s.evidences.raw_evidence, "pdf_images", None) = None
    THEN [detective_status |-> [vision_inspector |-> "skipped"]]
    ELSE IF out.ok
    THEN [evidences |->
            [git |-> None, code |-> None, pdf |-> None,
             images |-> [image_count |-> out.image_count],
             raw_evidence |-> [diagram_analysis |-> StrEvidence(TRUE, "vision")]],
          detective_status |-> [vision_inspector |-> "done"]]
    ELSE [evidence_errors |-> <<"Vision inspection failed">>,
          detective_status |-> [vision_inspector |-> "failed"]]

(***************************************************************************)
(* src/src/graph.py: the nodes and routing functions of AuditorGraph       *)
(***************************************************************************)
\* more errors than this abort the run
ErrorThreshold == 3

\* judge retries allowed
JudgeRetryLimit == 1

aggregate_evidence(s) ==
    [evidences |-> IF "evidences" \in DOMAIN s THEN s.evidences ELSE EmptyCollection,
     evidence_errors |-> Get(s, "evidence_errors", Empty)]

\* the names in detective_status whose status is 'failed', as one message
FailedDetectives(statuses) == {n \in DOMAIN statuses : statuses[n] = "failed"}

evidence_gate(s) ==
    LET statuses == Get(s, "detective_status", Empty)
        failed == FailedDetectives(statuses)
    IN  IF failed # {}
        THEN [evidence_errors |-> <<"Detective failed">>,
              detective_attempts |-> Get(s, "detective_attempts", 0) + 1]
        ELSE IF Get(s, "evidence_errors", Empty) # Empty
        THEN [detective_attempts |-> Get(s, "detective_attempts", 0) + 1]
        ELSE Empty

dispatch_detectives(s) == [evidence_errors |-> Empty]

dispatch_judges(s) == [judge_errors |-> Empty]

\* variant: the missing-evidence rule is tried before the error threshold
route_missing_first(s) ==
    LET errors == Get(s, "evidence_errors", Empty)
        evidences == Get(s, "evidences", None)
    IN  IF ~Get(s, "repo_cloned", TRUE) THEN "abort"
        ELSE IF evidences # None /\ (evidences.git = None \/ evidences.code = None)
        THEN "retry_detectives"
        ELSE IF Len(errors) > ErrorThreshold THEN "abort"
        ELSE IF errors # Empty THEN "retry_detectives"
        ELSE "proceed_to_judges"

\* variant: the error threshold is reached at 3 errors instead of exceeded
route_abort_at_threshold(s) ==
    LET errors == Get(s, "evidence_errors", Empty)
        evidences == Get(s, "evidences", None)
    IN  IF ~Get(s, "repo_cloned", TRUE) THEN "abort"
        ELSE IF Len(errors) >= ErrorThreshold THEN "abort"
        ELSE IF evidences # None /\ (evidences.git = None \/ evidences.code = None)
        THEN "retry_detectives"
        ELSE IF errors # Empty THEN "retry_detectives"
        ELSE "proceed_to_judges"

\* variant: remaining errors below the threshold do not cause a retry
route_ignoring_errors(s) ==
    LET errors == Get(s, "evidence_errors", Empty)
        evidences == Get(s, "evidences", None)
    IN  IF ~Get(s, "repo_cloned", TRUE) THEN "abort"
        ELSE IF Len(errors) > ErrorThreshold THEN "abort"
        ELSE IF evidences # None /\ (evidences.git = None \/ evidences.code = None)
        THEN "retry_detectives"
        ELSE "proceed_to_judges"

\* variant: a failed clone is retried like any other evidence error
route_retrying_clone(s) ==
    LET errors == Get(s, "evidence_errors", Empty)
        evidences == Get(s, "evidences", None)
    IN  IF Len(errors) > ErrorThreshold THEN "abort"
        ELSE IF evidences # None /\ (evidences.git = None \/ evidences.code = None)
        THEN "retry_detectives"
        ELSE IF errors # Empty THEN "retry_detectives"
        ELSE IF ~Get(s, "repo_cloned", TRUE) THEN "abort"
        ELSE "proceed_to_judges"

\* _route_based_on_evidence
route_based_on_evidence(s) ==
    LET errors == Get(s, "evidence_errors", Empty)
        evidences == Get(s, "evidences", None)
    IN  IF ~Get(s, "repo_cloned", TRUE) THEN "abort"
        ELSE IF Len(errors) > ErrorThreshold THEN "abort"
        ELSE IF evidences # None /\ (evidences.git = None \/ evidences.code = None)
        THEN "retry_detectives"
        ELSE IF errors # Empty THEN "retry_detectives"
        ELSE "proceed_to_judges"

aggregate_judgments(s) ==
    LET judge_errors == Get(s, "judge_errors", Empty)
    IN  IF judge_errors # Empty
        THEN [judge_errors |-> judge_errors,
              judge_attempts |-> Get(s, "judge_attempts", 0) + 1,
              warnings |-> <<"Judge output errors">>]
        ELSE [judge_errors |-> judge_errors]

\* variant: one more retry is allowed
route_judges_retry_again(s) ==
    LET errors == Get(s, "judge_errors", Empty)
        attempts == Get(s, "judge_attempts", 0)
    IN  IF errors # Empty /\ attempts <= JudgeRetryLimit THEN "retry_judges"
        ELSE "proceed_to_justice"

\* _route_based_on_judges
route_based_on_judges(s) ==
    LET errors == Get(s, "judge_errors", Empty)
        attempts == Get(s, "judge_attempts", 0)
    IN  IF errors # Empty /\ attempts < JudgeRetryLimit THEN "retry_judges"
        ELSE IF errors # Empty THEN "proceed_to_justice"
        ELSE "proceed_to_justice"

\* variant: the edge for proceed_to_justice leads to END
judge_edges_to_end(decision) ==
    IF decision = "retry_judges" THEN "judge_dispatch" ELSE "END"

\* variant: the edge for proceed_to_justice leads to the report generator
judge_edges_past_synthesis(decision) ==
    IF decision = "retry_judges" THEN "judge_dispatch" ELSE "report_generator"

\* the node each decision of _route_based_on_judges leads to
judge_edges(decision) ==
    IF decision = "retry_judges" THEN "judge_dispatch" ELSE "chief_justice"

\* the node judge_aggregator run on the channels s: its update is merged, then
\* the conditional edge routes on the channels as the update leaves them
judge_aggregator(s) ==
    CHOOSE r \in
        { [after |-> after, decision |-> route_based_on_judges(after)] :
            after \in { ApplyUpdate(s, aggregate_judgments(s)) } } : TRUE

\* the state AuditorGraph.run starts the graph with
initial_state(repo_url, pdf_path) ==
    [repo_url |-> repo_url,
     pdf_path |-> pdf_path,
     repo_cloned |-> FALSE,
     temp_dir |-> None,
     evidences |-> EmptyCollection,
     evidence_errors |-> Empty,
     detective_status |-> [repo_investigator |-> "pending",
                           doc_analyst |-> "pending",
                           vision_inspector |-> "pending"],
     detective_attempts |-> 0,
     opinions |-> Empty,
     criterion_judgments |-> Empty,
     judge_errors |-> Empty,
     judge_attempts |-> 0,
     final_verdicts |-> Empty,
     audit_report |-> None,
     report_path |-> None,
     report_artifacts |-> Empty,
     trace_id |-> "trace",
     errors |-> Empty,
     warnings |-> Empty]

(***************************************************************************)
(* src/src/utils/rubric_loader.py: the default rubric                      *)
(***************************************************************************)
DefaultDimensions ==
    << [id |-> "forensic_accuracy_code", name |-> "Forensic Accuracy (Codebase)",
        forensic_instruction |-> <<"Verify code structure and tool registration">>],
       [id |-> "forensic_accuracy_docs", name |-> "Forensic Accuracy (Documentation)",
        forensic_instruction |-> <<"Verify theoretical depth and cross-reference claims">>],
       [id |-> "judicial_nuance", name |-> "Judicial Nuance & Dialectics",
        forensic_instruction |-> <<"Verify distinct judge personas and parallel execution">>],
       [id |-> "langgraph_architecture", name |-> "LangGraph Orchestration Rigor",
        forensic_instruction |-> <<"Analyze StateGraph for parallel branches and error handling">>] >>

\* self.rubric['dimensions'], cut to the modelled number of dimensions
Rubric == SubSeq(DefaultDimensions, 1, NumCriteria)

\* next((c for c in rubric['dimensions'] if c['id'] == criterion_id), None)
RubricCriterion(criterion_id) ==
    IF \E i \in DOMAIN Rubric : Rubric[i].id = criterion_id
    THEN Rubric[CHOOSE i \in DOMAIN Rubric :
                  /\ Rubric[i].id = criterion_id
                  /\ \A j \in 1..(i - 1) : Rubric[j].id # criterion_id]
    ELSE None

(***************************************************************************)
(* src/src/nodes/judges.py                                                 *)
(***************************************************************************)
Personas == {"Prosecutor", "Defense", "TechLead"}

\* the score and confidence (in tenths) of the fallback opinion
FallbackScore == 1
FallbackConfidence == 1

\* the fallback opinion of the except branch
FallbackOpinion(persona, criterion_id, error) ==
    [judge |-> persona,
     criterion_id |-> criterion_id,
     score |-> FallbackScore,
     argument |-> <<"Judgment failed: ">> \o error,
     cited_evidence |-> Empty,
     confidence |-> FallbackConfidence]

\* variant: the persona and criterion of the returned opinion are not enforced
JudgedOpinionUntagged(persona, criterion, out) ==
    IF out.ok
    THEN out.result
    ELSE FallbackOpinion(persona, criterion.id, out.error)

\* one pass of the loop over the rubric: the opinion for dimension i
JudgedOpinion(persona, criterion, out) ==
    IF out.ok
    THEN [out.result EXCEPT !.judge = persona, !.criterion_id = criterion.id]
    ELSE FallbackOpinion(persona, criterion.id, out.error)

RECURSIVE GroupByCriterion(_, _)
\* the 'Group by criterion' loop
GroupByCriterion(judgments, opinions) ==
    IF opinions = Empty THEN judgments
    ELSE LET opinion == Head(opinions)
             criterion == RubricCriterion(opinion.criterion_id)
             known == KeyIndex(judgments, opinion.criterion_id) # 0
             with == IF known THEN judgments
                     ELSE Append(judgments,
                            [criterion_id |-> opinion.criterion_id,
                             criterion_name |-> IF criterion = None THEN "Unknown"
                                                ELSE criterion.name,
                             opinions |-> Empty])
             i == KeyIndex(with, opinion.criterion_id)
         IN  CHOOSE r \in
                { GroupByCriterion(j, Tail(opinions)) :
                    j \in { [with EXCEPT ![i].opinions = Append(@, opinion)] } } : TRUE

\* variant: the first failure ends the loop over the rubric
judge_criteria_abandon(s, persona, outs) ==
    LET failed == {i \in DOMAIN Rubric : ~outs[i].ok}
        last == IF failed = {} THEN Len(Rubric)
                ELSE (CHOOSE i \in failed : \A j \in failed : i <= j) - 1
        opinions == [i \in 1..last |-> JudgedOpinion(persona, Rubric[i], outs[i])]
    IN  [opinions |-> opinions,
         criterion_judgments |-> GroupByCriterion(Empty, opinions)]

\* _judge_criteria; outs[i] is what the chain did for dimension i
judge_criteria(s, persona, outs) ==
    CHOOSE r \in
        { [opinions |-> opinions,
           criterion_judgments |-> GroupByCriterion(Empty, opinions)] :
            opinions \in { [i \in DOMAIN Rubric |->
                              JudgedOpinion(persona, Rubric[i], outs[i])] } } : TRUE

(***************************************************************************)
(* src/src/nodes/justice.py                                                *)
(***************************************************************************)
SecurityKeywords == {"security", "vulnerability", "bypass", "injection"}

SecurityMaxScore == 1     \* prosecutor.score <= 1
SecurityCap == 3          \* min(final_score, 3)
FactMinScore == 4         \* defense.score >= 4
DissentExcerpt == 160     \* argument[:160]
RemediationExcerpt == 200 \* argument[:200]
NarrativeExcerpt == 220   \* argument[:220]
MaxCrossRef == 3          \* cited_evidence[:3]
VarianceNote == 2         \* score_variance > 2
StrongScore == 4          \* final_score >= 4
CriticalScore == 2        \* final_score <= 2
MixedScore == 3           \* elif score == 3
MaxScore == 5             \* len(verdicts) * 5

Min(a, b) == IF a <= b THEN a ELSE b

\* next((o for o in opinions if o.judge == persona), None)
FirstOpinion(opinions, persona) ==
    IF \E i \in DOMAIN opinions : opinions[i].judge = persona
    THEN opinions[CHOOSE i \in DOMAIN opinions :
                    /\ opinions[i].judge = persona
                    /\ \A j \in 1..(i - 1) : opinions[j].judge # persona]
    ELSE None

\* {o.judge: o for o in opinions}.get(persona)
LastOpinion(opinions, persona) ==
    IF \E i \in DOMAIN opinions : opinions[i].judge = persona
    THEN opinions[CHOOSE i \in DOMAIN opinions :
                    /\ opinions[i].judge = persona
                    /\ \A j \in (i + 1)..Len(opinions) : opinions[j].judge # persona]
    ELSE None

\* CriterionJudgment.score_variance
score_variance(judgment) ==
    CHOOSE r \in
        { IF Len(judgment.opinions) < 2 THEN 0
          ELSE (CHOOSE m \in scores : \A x \in scores : x <= m)
               - (CHOOSE m \in scores : \A x \in scores : m <= x) :
            scores \in { {judgment.opinions[i].score : i \in DOMAIN judgment.opinions} } } :
        TRUE

\* one citation of _verify_defense_claims
CitationVerified(citation, evidences) ==
    IF Contains(Lower(citation), "architecture_notes")
    THEN evidences.code # None /\ evidences.code.architecture_notes_exists
    ELSE IF Contains(Lower(citation), "git")
    THEN ~(evidences.git = None \/ evidences.git.commit_count = 0)
    ELSE TRUE

verify_defense_claims(defense, evidences) ==
    \A i \in DOMAIN defense.cited_evidence :
        CitationVerified(defense.cited_evidence[i], evidences)

\* variant: the Rule of Security also fires for a Prosecutor score of 2
SecurityRuleLenient(prosecutor) ==
    /\ prosecutor # None
    /\ prosecutor.score <= SecurityMaxScore + 1
    /\ \E kw \in SecurityKeywords : Contains(Lower(prosecutor.argument), kw)

\* the condition of the Rule of Security
SecurityRule(prosecutor) ==
    /\ prosecutor # None
    /\ prosecutor.score <= SecurityMaxScore
    /\ \E kw \in SecurityKeywords : Contains(Lower(prosecutor.argument), kw)

\* variant: the Rule of Fact needs a Defense score above 4
FactRuleStrict(defense, evidences) ==
    /\ defense # None
    /\ defense.score > FactMinScore
    /\ ~verify_defense_claims(defense, evidences)

\* the condition of the Rule of Fact
FactRule(defense, evidences) ==
    /\ defense # None
    /\ defense.score >= FactMinScore
    /\ ~verify_defense_claims(defense, evidences)

generate_dissent(judgment, final_score) ==
    LET part(label, persona) ==
            CHOOSE r \in
                { IF o = None THEN Empty
                  ELSE << <<label, o.score, Truncate(o.argument, DissentExcerpt)>> >> :
                    o \in { LastOpinion(judgment.opinions, persona) } } : TRUE
    IN  part("Prosecution", "Prosecutor") \o part("Defense", "Defense")
        \o part("Tech Lead", "TechLead")
        \o << <<"Final Ruling", final_score>> >>
        \o (IF score_variance(judgment) > VarianceNote
            THEN << <<"NOTE: Significant disagreement">> >> ELSE Empty)

\* variant: the cross-reference line lists every item the Prosecutor cited
generate_remediation_all_cited(criterion_id, score, prosecutor, defense, tech_lead) ==
    LET rubric_criterion == RubricCriterion(criterion_id)
        bucket ==
            IF score <= CriticalScore
            THEN IF prosecutor # None
                 THEN << <<"Critical", Truncate(prosecutor.argument, RemediationExcerpt)>> >>
                      \o (IF "forensic_instruction" \in DOMAIN rubric_criterion
                          THEN << <<"Implement", rubric_criterion.forensic_instruction>> >>
                          ELSE Empty)
                 ELSE Empty
            ELSE IF score = MixedScore
            THEN IF tech_lead # None
                 THEN << <<"Refine", Truncate(tech_lead.argument, RemediationExcerpt)>> >>
                 ELSE Empty
            ELSE IF defense # None
                 THEN << <<"Polish", Truncate(defense.argument, RemediationExcerpt)>> >>
                 ELSE Empty
        cross ==
            IF prosecutor # None /\ prosecutor.cited_evidence # Empty
            THEN << <<"Review evidence", prosecutor.cited_evidence>> >>
            ELSE Empty
    IN  IF rubric_criterion = None
        THEN << <<"No remediation guidance available.">> >>
        ELSE bucket \o cross

generate_remediation(criterion_id, score, prosecutor, defense, tech_lead) ==
    LET rubric_criterion == RubricCriterion(criterion_id)
        bucket ==
            IF score <= CriticalScore
            THEN IF prosecutor # None
                 THEN << <<"Critical", Truncate(prosecutor.argument, RemediationExcerpt)>> >>
                      \o (IF "forensic_instruction" \in DOMAIN rubric_criterion
                          THEN << <<"Implement", rubric_criterion.forensic_instruction>> >>
                          ELSE Empty)
                 ELSE Empty
            ELSE IF score = MixedScore
            THEN IF tech_lead # None
                 THEN << <<"Refine", Truncate(tech_lead.argument, RemediationExcerpt)>> >>
                 ELSE Empty
            ELSE IF defense # None
                 THEN << <<"Polish", Truncate(defense.argument, RemediationExcerpt)>> >>
                 ELSE Empty
        cross ==
            IF prosecutor # None /\ prosecutor.cited_evidence # Empty
            THEN << <<"Review evidence", Truncate(prosecutor.cited_evidence, MaxCrossRef)>> >>
            ELSE Empty
    IN  IF rubric_criterion = None
        THEN << <<"No remediation guidance available.">> >>
        ELSE bucket \o cross

\* variant: the personas' opinions are taken by their position in the list
SelectedOpinionsByPosition(judgment) ==
    LET at(k) == IF k <= Len(judgment.opinions) THEN judgment.opinions[k] ELSE None
    IN  [prosecutor |-> at(1),
         defense |-> at(2),
         tech_lead |-> IF at(3) = None THEN Or(at(1), at(2)) ELSE at(3)]

\* 'Extract opinions by role', with the fallback for a missing Tech Lead
SelectedOpinions(judgment) ==
    LET prosecutor == FirstOpinion(judgment.opinions, "Prosecutor")
        defense == FirstOpinion(judgment.opinions, "Defense")
        tech_lead == FirstOpinion(judgment.opinions, "TechLead")
    IN  [prosecutor |-> prosecutor,
         defense |-> defense,
         tech_lead |-> IF tech_lead = None THEN Or(prosecutor, defense) ELSE tech_lead]

\* variant: the cap of the Rule of Security is not lifted by the Rule of Fact
FinalScoreCapLast(tech_lead, security_override, fact_supremacy) ==
    IF security_override THEN Min(tech_lead.score, SecurityCap) ELSE tech_lead.score

\* 'Apply synthesis rules': final_score as the two rules leave it
FinalScore(tech_lead, security_override, fact_supremacy) ==
    LET capped == IF security_override THEN Min(tech_lead.score, SecurityCap)
                  ELSE tech_lead.score
    IN  IF fact_supremacy THEN tech_lead.score ELSE capped

\* the FinalVerdict _deliberate_criterion returns
Verdict(judgment, o, final_score, security_override, fact_supremacy) ==
    [criterion_id |-> judgment.criterion_id,
     final_score |-> final_score,
     dissent_summary |-> generate_dissent(judgment, final_score),
     remediation_plan |->
        generate_remediation(judgment.criterion_id, final_score,
                             o.prosecutor, o.defense, o.tech_lead),
     security_override_applied |-> security_override,
     fact_supremacy_applied |-> fact_supremacy]

\* _deliberate_criterion (o, security, fact and score are its locals)
deliberate_criterion(judgment, evidences) ==
    CHOOSE verdict \in
        UNION { UNION { { Verdict(judgment, o, score, security, fact) :
                            score \in { FinalScore(o.tech_lead, security, fact) } } :
                        security \in { SecurityRule(o.prosecutor) },
                        fact \in { FactRule(o.defense, evidences) } } :
                o \in { SelectedOpinions(judgment) } } : TRUE

RECURSIVE SumScores(_)
\* sum(v.final_score for v in verdicts)
SumScores(verdicts) ==
    IF verdicts = Empty THEN 0
    ELSE Head(verdicts).final_score + SumScores(Tail(verdicts))

\* the judgment of criterion_judgments.get(criterion_id)
JudgmentOf(judgments, criterion_id) ==
    IF KeyIndex(judgments, criterion_id) = 0 THEN None
    ELSE judgments[KeyIndex(judgments, criterion_id)]

\* the narrative of one verdict in _generate_report
Narrative(judgment, verdict) ==
    LET part(label, persona) ==
            CHOOSE r \in
                { IF o = None THEN Empty
                  ELSE << <<label, Truncate(o.argument, NarrativeExcerpt)>> >> :
                    o \in { LastOpinion(judgment.opinions, persona) } } : TRUE
    IN  << <<"Final Score", verdict.final_score, score_variance(judgment)>> >>
        \o (IF verdict.security_override_applied
            THEN << <<"Security override applied.">> >> ELSE Empty)
        \o (IF verdict.fact_supremacy_applied
            THEN << <<"Fact supremacy applied.">> >> ELSE Empty)
        \o part("Prosecution emphasized", "Prosecutor")
        \o part("Defense emphasized", "Defense")
        \o part("Tech Lead emphasized", "TechLead")

\* the last verdict of criterion id in verdicts (a dict filled in list order)
LastVerdict(verdicts, id) ==
    verdicts[CHOOSE i \in DOMAIN verdicts :
               /\ verdicts[i].criterion_id = id
               /\ \A j \in (i + 1)..Len(verdicts) : verdicts[j].criterion_id # id]

\* datetime.strftime("%Y%m%d_%H%M%S"): the text of a datetime down to its
\* second; the microseconds are not printed
strftime(datetime) == ToString(datetime.second)

\* datetime.now() in a run on its own, where the clock is read as one instant
RunInstant == [second |-> 0, microsecond |-> 0]

generate_report(s, verdicts) ==
    LET ids == {verdicts[i].criterion_id : i \in DOMAIN verdicts}
        judgments == Get(s, "criterion_judgments", Empty)
        finding(v) == IF v.final_score >= StrongScore THEN "OK"
                      ELSE IF v.final_score <= CriticalScore THEN "FAIL"
                      ELSE "WARN"
    IN  [repo_url |-> s.repo_url,
         timestamp |-> RunInstant,
         executive_summary |->
            [total_score |-> SumScores(verdicts),
             max_score |-> Len(verdicts) * MaxScore,
             findings |-> [i \in DOMAIN verdicts |->
                             <<finding(verdicts[i]), verdicts[i].criterion_id>>]],
         criterion_breakdown |-> verdicts,
         remediation_plan |->
            [id \in ids |-> LastVerdict(verdicts, id).remediation_plan],
         raw_evidence_summary |->
            [git_commits |-> IF s.evidences.git # None
                             THEN s.evidences.git.commit_count ELSE 0,
             code_analyzed |-> s.evidences.code # None,
             pdf_analyzed |-> s.evidences.pdf # None,
             diagrams_analyzed |-> IF s.evidences.images # None
                                   THEN s.evidences.images.image_count ELSE 0],
         criterion_narratives |->
            [id \in {i \in ids : JudgmentOf(judgments, i) # None} |->
                CHOOSE r \in
                    { Narrative(judgment, verdict) :
                        judgment \in { JudgmentOf(judgments, id) },
                        verdict \in { LastVerdict(verdicts, id) } } : TRUE]]

\* the paths _persist_reports writes, named from the report's timestamp
persist_reports(report) ==
    LET timestamp == strftime(report.timestamp)
    IN  [self_audit |-> [path |-> "audit/report_" \o timestamp \o "_self_audit.md"],
         peer_audit |-> [path |-> "audit/report_" \o timestamp \o "_peer_audit.md"],
         peer_received |-> [path |-> "audit/report_" \o timestamp \o "_peer_received.md"],
         summary_report |-> [path |-> "audit/report_" \o timestamp \o "_summary.md"],
         json_report |-> [path |-> "audit/report_" \o timestamp \o ".json"],
         full_report |-> [path |-> "audit/report_" \o timestamp \o "_self_audit.md"]]

\* variant: synthesize also returns evidence, a document component built
\* from the report
SynthesizeReturnWithEvidence(final_verdicts, audit_report) ==
    [final_verdicts |-> final_verdicts,
     audit_report |-> audit_report,
     report_artifacts |-> persist_reports(audit_report),
     evidences |-> [EmptyCollection EXCEPT !.pdf = [claimed_file_paths |-> Empty]]]

\* the return statement of synthesize, once its locals are assigned
SynthesizeReturn(final_verdicts, audit_report) ==
    [final_verdicts |-> final_verdicts,
     audit_report |-> audit_report,
     report_artifacts |-> persist_reports(audit_report)]

\* ChiefJusticeNode.synthesize (each local is assigned once: the bound
\* variables fv and ar hold the values of final_verdicts and audit_report)
synthesize(s) ==
    LET judgments == Get(s, "criterion_judgments", Empty)
    IN  CHOOSE update \in
            UNION { { SynthesizeReturn(fv, ar) : ar \in {generate_report(s, fv)} } :
                    fv \in { [i \in DOMAIN judgments |->
                                deliberate_criterion(judgments[i], s.evidences)] } } :
            TRUE

\* variant: the report is cleared from the state once its file is written
generate_output_clearing(s) ==
    [report_path |-> [path |-> "audit/report_" \o strftime(RunInstant) \o ".md"],
     audit_report |-> None]

\* AuditorGraph._generate_output
generate_output(s) ==
    LET artifacts == Get(s, "report_artifacts", None)
        report == Get(s, "audit_report", None)
    IN  IF artifacts # None /\ artifacts # Empty
        THEN [report_path |-> Get(artifacts, "full_report", None),
              report_artifacts |-> artifacts]
        ELSE IF report = None THEN Empty
        ELSE [report_path |-> [path |-> "audit/report_" \o strftime(RunInstant) \o ".md"]]

(***************************************************************************)
(* What the scoring workers (the LLM chain) may return in a run.           *)
(***************************************************************************)
\* the parsed JudicialOpinion a worker returns for a persona; the judge and
\* criterion_id it names are the model's own choice, not the caller's
WorkerResult(persona) ==
    CASE persona = "Prosecutor" ->
            [judge |-> "Defense", criterion_id |-> "unknown_criterion", score |-> 1,
             argument |-> <<"found a ", "Security", " flaw">>,
             cited_evidence |-> << <<"git">> >>, confidence |-> 9]
      [] persona = "Defense" ->
            [judge |-> "Defense", criterion_id |-> "judicial_nuance", score |-> 5,
             argument |-> <<"deep understanding">>,
             cited_evidence |-> << <<"ARCHITECTURE_NOTES">> >>, confidence |-> 8]
      [] OTHER ->
            [judge |-> "Prosecutor", criterion_id |-> "forensic_accuracy_code", score |-> 4,
             argument |-> <<"works">>,
             cited_evidence |-> Empty, confidence |-> 7]

\* what the chain may do for one criterion: raise, or return a parsed opinion
JudgeOutcomes(persona) ==
    {[ok |-> FALSE, error |-> <<"timeout">>],
     [ok |-> TRUE, result |-> WorkerResult(persona)]}

(***************************************************************************)
(* The run of the graph (AuditorGraph.run and the edges of _build_graph).  *)
(***************************************************************************)
Detectives == {"repo_investigator", "doc_analyst", "vision_inspector"}
Judges == {"prosecutor", "defense", "tech_lead"}

\* the branch has returned in the current superstep
Returned(node) == \E i \in DOMAIN writes : writes[i].node = node

\* variant: the superstep ends as soon as one branch has returned
SomeReturned(nodes) == \E node \in nodes : Returned(node)

\* every branch of the fan-out has returned: the superstep is complete
AllReturned(nodes) == \A node \in nodes : Returned(node)

\* variant: a returned update is merged at once, so the siblings that are
\* still running read it
ReturnVisible(node, update) ==
    /\ ~Returned(node)
    /\ \E u \in {update} :
          /\ writes' = Append(writes, [node |-> node, update |-> u])
          /\ state' = ApplyUpdate(state, u)
    /\ UNCHANGED <<pc, route, arg, ret>>

\* a branch of the current fan-out returns its update
Return(node, update) ==
    /\ ~Returned(node)
    /\ \E u \in {update} : writes' = Append(writes, [node |-> node, update |-> u])
    /\ UNCHANGED <<state, pc, route, arg, ret>>

\* a single node runs as a superstep of its own and `next` is scheduled
Step(update, next) ==
    /\ \E u \in {update} : state' = ApplyUpdate(state, u)
    /\ pc' = next
    /\ UNCHANGED <<writes, route, arg, ret>>

DetectiveDispatch ==
    /\ pc = "detective_dispatch"
    /\ Step(dispatch_detectives(state), "detectives")

RepoInvestigator ==
    /\ pc = "detectives"
    /\ \E out \in RepoOutcomes :
          Return("repo_investigator", repo_investigator(state, out))

DocAnalyst ==
    /\ pc = "detectives"
    /\ \E out \in DocOutcomes :
          Return("doc_analyst", doc_analyst(state, out))

VisionInspector ==
    /\ pc = "detectives"
    /\ \E out \in VisionOutcomes :
          Return("vision_inspector", vision_inspector(state, out))

\* the end of a fan-out superstep: every branch has returned, the updates
\* are merged and the node the branches lead to is scheduled
FanIn ==
    /\ pc \in {"detectives", "judges"}
    /\ AllReturned(IF pc = "detectives" THEN Detectives ELSE Judges)
    /\ state' = MergeFanIn(state, writes)
    /\ writes' = Empty
    /\ pc' = IF pc = "detectives" THEN "evidence_aggregator" ELSE "judge_aggregator"
    /\ UNCHANGED <<route, arg, ret>>

EvidenceAggregator ==
    /\ pc = "evidence_aggregator"
    /\ Step(aggregate_evidence(state), "evidence_gate")

\* the node evidence_gate and the conditional edge that leaves it
EvidenceGate ==
    /\ pc = "evidence_gate"
    /\ LET after == ApplyUpdate(state, evidence_gate(state))
           decision == route_based_on_evidence(after)
       IN  /\ state' = after
           /\ route' = decision
           /\ pc' = CASE decision = "proceed_to_judges" -> "judge_dispatch"
                      [] decision = "retry_detectives" -> "detective_dispatch"
                      [] OTHER -> "END"
    /\ UNCHANGED <<writes, arg, ret>>

JudgeDispatch ==
    /\ pc = "judge_dispatch"
    /\ Step(dispatch_judges(state), "judges")

Prosecutor ==
    /\ pc = "judges"
    /\ \E outs \in [DOMAIN Rubric -> JudgeOutcomes("Prosecutor")] :
          Return("prosecutor", judge_criteria(state, "Prosecutor", outs))

Defense ==
    /\ pc = "judges"
    /\ \E outs \in [DOMAIN Rubric -> JudgeOutcomes("Defense")] :
          Return("defense", judge_criteria(state, "Defense", outs))

TechLead ==
    /\ pc = "judges"
    /\ \E outs \in [DOMAIN Rubric -> JudgeOutcomes("TechLead")] :
          Return("tech_lead", judge_criteria(state, "TechLead", outs))

\* the node judge_aggregator and the conditional edge that leaves it
JudgeAggregator ==
    /\ pc = "judge_aggregator"
    /\ \E step \in { judge_aggregator(state) } :
          /\ state' = step.after
          /\ route' = step.decision
          /\ pc' = judge_edges(step.decision)
    /\ UNCHANGED <<writes, arg, ret>>

ChiefJustice ==
    /\ pc = "chief_justice"
    /\ Step(synthesize(state), "report_generator")

ReportGenerator ==
    /\ pc = "report_generator"
    /\ Step(generate_output(state), "END")

Init ==
    /\ \E pdf_path \in PdfPaths :
          state = InputChannels(initial_state("repo", pdf_path))
    /\ pc = "detective_dispatch"
    /\ writes = Empty
    /\ route = "none"
    /\ arg = None
    /\ ret = None

Next ==
    \/ DetectiveDispatch
    \/ RepoInvestigator
    \/ DocAnalyst
    \/ VisionInspector
    \/ FanIn
    \/ EvidenceAggregator
    \/ EvidenceGate
    \/ JudgeDispatch
    \/ Prosecutor
    \/ Defense
    \/ TechLead
    \/ JudgeAggregator
    \/ ChiefJustice
    \/ ReportGenerator

Spec == Init /\ [][Next]_vars

\* every scheduled node runs to completion and the engine merges a fan-out
\* whose branches have all returned
FairSpec == Spec /\ WF_vars(Next)

(***************************************************************************)
(* The routing functions on their own: GateSpec applies                    *)
(* _route_based_on_evidence and _route_based_on_judges to every state of   *)
(* a bounded set.                                                          *)
(***************************************************************************)
\* a list of n error messages
ErrorList(n) == [i \in 1..n |-> "error"]

\* evidence collections with history / structure evidence present or not
GateCollections ==
    {[EmptyCollection EXCEPT !.git = g, !.code = c] :
        g \in {None, [commit_count |-> 1]},
        c \in {None, [architecture_notes_exists |-> TRUE]}}

EvidenceGateStates ==
    {[repo_cloned |-> cloned, evidence_errors |-> ErrorList(n), evidences |-> e] :
        cloned \in BOOLEAN, n \in 0..MaxErrors, e \in GateCollections}

\* states with the judge keys, and one (the channels of a run) without them
JudgeGateStates ==
    {[judge_errors |-> ErrorList(n), judge_attempts |-> a] :
        n \in 0..MaxJudgeErrors, a \in 0..MaxAttempts}
    \cup {InputChannels(initial_state("repo", None))}

GateInputs ==
    {[fn |-> "route_based_on_evidence", state |-> s] : s \in EvidenceGateStates}
    \cup {[fn |-> "route_based_on_judges", state |-> s] : s \in JudgeGateStates}
    \cup {[fn |-> "judge_aggregator", state |-> s] : s \in JudgeGateStates}

\* the variables of the run, idle while a function is applied on its own
Idle ==
    /\ state = InputChannels(initial_state("repo", None))
    /\ pc = "function"
    /\ writes = Empty
    /\ route = "none"

GateInit ==
    /\ Idle
    /\ arg \in GateInputs
    /\ ret = None

RouteEvidence ==
    /\ ret = None
    /\ arg.fn = "route_based_on_evidence"
    /\ ret' = [decision |-> route_based_on_evidence(arg.state)]
    /\ UNCHANGED <<state, pc, writes, route, arg>>

RouteJudges ==
    /\ ret = None
    /\ arg.fn = "route_based_on_judges"
    /\ ret' = [decision |-> route_based_on_judges(arg.state)]
    /\ UNCHANGED <<state, pc, writes, route, arg>>

\* the node judge_aggregator and its conditional edge, on a state of their own
JudgeGate ==
    /\ ret = None
    /\ arg.fn = "judge_aggregator"
    /\ ret' = judge_aggregator(arg.state)
    /\ UNCHANGED <<state, pc, writes, route, arg>>

GateNext == RouteEvidence \/ RouteJudges \/ JudgeGate

GateSpec == GateInit /\ [][GateNext]_vars

(***************************************************************************)
(* Synthesis on its own: SynthSpec applies _deliberate_criterion to every  *)
(* judgment and evidence collection of a bounded set.                      *)
(***************************************************************************)
Scores == 0..MaxScore

Arguments ==
    { <<"incomplete">>,
      <<"found a ", "security", " ", "vulnerability">>,
      <<"SQL ", "Injection", " in handler">> }

Citations ==
    { <<"readme">>,
      <<"architecture_notes">>,
      <<"Git", " log">> }

CitedLists == UNION {[1..n -> Citations] : n \in 0..MaxCited}

ProsecutorOpinions ==
    {[judge |-> "Prosecutor", criterion_id |-> Rubric[1].id, score |-> sc,
      argument |-> a, cited_evidence |-> Empty, confidence |-> 9] :
        sc \in Scores, a \in Arguments}

DefenseOpinions ==
    {[judge |-> "Defense", criterion_id |-> Rubric[1].id, score |-> sc,
      argument |-> <<"good effort">>, cited_evidence |-> c, confidence |-> 8] :
        sc \in Scores, c \in CitedLists}

TechLeadOpinions ==
    {[judge |-> "TechLead", criterion_id |-> Rubric[1].id, score |-> sc,
      argument |-> <<"works">>, cited_evidence |-> Empty, confidence |-> 7] :
        sc \in Scores}

\* the opinions that are present, as a list
Present(p, d, t) == SelectSeq(<<p, d, t>>, LAMBDA o : o # None)

SynthJudgments ==
    {[criterion_id |-> Rubric[1].id, criterion_name |-> Rubric[1].name,
      opinions |-> Present(p, d, t)] :
        p \in ProsecutorOpinions \cup {None},
        d \in DefenseOpinions \cup {None},
        t \in TechLeadOpinions \cup {None}}

SynthCollections ==
    {[EmptyCollection EXCEPT !.git = g, !.code = c] :
        g \in {None} \cup {[commit_count |-> n] : n \in CommitCounts},
        c \in {None} \cup {[architecture_notes_exists |-> b] : b \in BOOLEAN}}

SynthInit ==
    /\ Idle
    /\ arg \in {[fn |-> "deliberate_criterion", judgment |-> j, evidences |-> e] :
                  j \in {x \in SynthJudgments : x.opinions # Empty},
                  e \in SynthCollections}
    /\ ret = None

Deliberate ==
    /\ ret = None
    /\ arg.fn = "deliberate_criterion"
    /\ ret' = deliberate_criterion(arg.judgment, arg.evidences)
    /\ UNCHANGED <<state, pc, writes, route, arg>>

SynthNext == Deliberate

SynthSpec == SynthInit /\ [][SynthNext]_vars

(***************************************************************************)
(* Citation verification on its own: CiteSpec applies                      *)
(* _verify_defense_claims to every list of citations, one of which         *)
(* mentions both architecture_notes and git, and every evidence collection.*)
(***************************************************************************)
CitedTexts ==
    Citations \cup { <<"architecture_notes", " and ", "Git", " log">> }

CiteInit ==
    /\ Idle
    /\ arg \in {[fn |-> "verify_defense_claims",
                 defense |-> [judge |-> "Defense", criterion_id |-> Rubric[1].id,
                              score |-> StrongScore, argument |-> <<"good effort">>,
                              cited_evidence |-> c, confidence |-> 8],
                 evidences |-> e] :
                  c \in UNION {[1..n -> CitedTexts] : n \in 0..MaxCited},
                  e \in SynthCollections}
    /\ ret = None

VerifyDefenseClaims ==
    /\ ret = None
    /\ arg.fn = "verify_defense_claims"
    /\ ret' = [verified |-> verify_defense_claims(arg.defense, arg.evidences)]
    /\ UNCHANGED <<state, pc, writes, route, arg>>

CiteNext == VerifyDefenseClaims

CiteSpec == CiteInit /\ [][CiteNext]_vars

(***************************************************************************)
(* A persona branch on its own: JudgeSpec applies _judge_criteria to every *)
(* persona and every outcome of the chain for each criterion.              *)
(***************************************************************************)
\* what the chain may return for a criterion: an opinion naming any persona
\* and a criterion id of the rubric or not
ChainResults ==
    {[judge |-> j, criterion_id |-> c, score |-> sc, argument |-> <<"works">>,
      cited_evidence |-> << <<"git">> >>, confidence |-> 9] :
        j \in Personas, c \in {Rubric[1].id, "unknown_criterion"}, sc \in {0, MaxScore}}

\* what the chain may do for a criterion: raise (upstream failure, output
\* that does not parse or validate) or return an opinion
ChainOutcomes ==
    {[ok |-> FALSE, error |-> e] : e \in {<<"timeout">>, <<"validation error">>}}
    \cup {[ok |-> TRUE, result |-> r] : r \in ChainResults}

JudgeInit ==
    /\ Idle
    /\ arg \in {[fn |-> "judge_criteria", persona |-> p, outs |-> o] :
                  p \in Personas, o \in [DOMAIN Rubric -> ChainOutcomes]}
    /\ ret = None

JudgeCriteria ==
    /\ ret = None
    /\ arg.fn = "judge_criteria"
    /\ ret' = judge_criteria(state, arg.persona, arg.outs)
    /\ UNCHANGED <<state, pc, writes, route, arg>>

JudgeNext == JudgeCriteria

JudgeSpec == JudgeInit /\ [][JudgeNext]_vars

(***************************************************************************)
(* The reducers on their own: MergeSpec applies merge_evidences to every   *)
(* pair of collections and merge_criterion_judgments to every pair of      *)
(* judgment maps; AssocSpec merges every triple of collections both ways.  *)
(***************************************************************************)
\* the keys the detectives file raw evidence under
RawKeys == {"git_commits", "pdf_text"}

\* the collections an update named `side` may carry: every component present
\* or absent, raw evidence under any set of keys
Collections(side) ==
    {[git |-> g, code |-> c, pdf |-> p, images |-> i,
      raw_evidence |-> [k \in ks |-> [found_by |-> side]]] :
        g \in {None, [git_by |-> side]}, c \in {None, [code_by |-> side]},
        p \in {None, [pdf_by |-> side]}, i \in {None, [images_by |-> side]},
        ks \in SUBSET RawKeys}

\* an opinion of persona j on criterion c, produced in attempt `side`
AttemptOpinion(j, c, side) ==
    [judge |-> j, criterion_id |-> c, score |-> StrongScore, argument |-> <<side>>,
     cited_evidence |-> Empty, confidence |-> 9]

\* the opinions a judgment of criterion c may hold: one branch's, two
\* branches' or all three
OpinionLists(c, side) ==
    { <<AttemptOpinion("Prosecutor", c, side)>>,
      <<AttemptOpinion("Defense", c, side), AttemptOpinion("TechLead", c, side)>>,
      <<AttemptOpinion("Prosecutor", c, side), AttemptOpinion("Defense", c, side),
        AttemptOpinion("TechLead", c, side)>> }

\* the judgment maps of an update named `side`: judgments of distinct rubric
\* criteria in any insertion order
JudgmentMaps(side) ==
    UNION { { m \in [1..n -> UNION { [criterion_id : {Rubric[d].id},
                                      criterion_name : {Rubric[d].name},
                                      opinions : OpinionLists(Rubric[d].id, side)] :
                                        d \in DOMAIN Rubric }] :
                \A a, b \in 1..n : a # b => m[a].criterion_id # m[b].criterion_id } :
            n \in 0..Len(Rubric) }

\* two updates to the evidences channel, or two to criterion_judgments
MergeInit ==
    /\ Idle
    /\ \/ arg \in {[fn |-> "merge_evidences", left |-> l, right |-> r] :
                     l \in Collections("left"), r \in Collections("right")}
       \/ arg \in {[fn |-> "merge_criterion_judgments", left |-> l, right |-> r] :
                     l \in JudgmentMaps("left"), r \in JudgmentMaps("right")}
    /\ ret = None

MergeEvidences ==
    /\ ret = None
    /\ arg.fn = "merge_evidences"
    /\ ret' = [merged |-> merge_evidences(arg.left, arg.right)]
    /\ UNCHANGED <<state, pc, writes, route, arg>>

MergeJudgments ==
    /\ ret = None
    /\ arg.fn = "merge_criterion_judgments"
    /\ ret' = [merged |-> merge_criterion_judgments(arg.left, arg.right)]
    /\ UNCHANGED <<state, pc, writes, route, arg>>

MergeNext == MergeEvidences \/ MergeJudgments

MergeSpec == MergeInit /\ [][MergeNext]_vars

\* three updates to the evidences channel
AssocInit ==
    /\ Idle
    /\ arg \in {[fn |-> "merge_evidences", left |-> l, right |-> r, third |-> t] :
                  l \in Collections("left"), r \in Collections("right"),
                  t \in Collections("third")}
    /\ ret = None

\* the two ways of merging three updates with merge_evidences
MergeThree ==
    /\ ret = None
    /\ ret' = [left_first |-> merge_evidences(merge_evidences(arg.left, arg.right),
                                              arg.third),
               right_first |-> merge_evidences(arg.left,
                                               merge_evidences(arg.right, arg.third))]
    /\ UNCHANGED <<state, pc, writes, route, arg>>

AssocNext == MergeThree

AssocSpec == AssocInit /\ [][AssocNext]_vars

(***************************************************************************)
(* batch_run: BatchSpec runs a batch of audits on one AuditorGraph. The    *)
(* runs are tasks of one event loop and interleave where they await; they  *)
(* share the graph's DetectiveNodes and so its GitForensicTool. Here       *)
(*   state.runs      the runs, each with the state of its graph run        *)
(*   state.repo_path git_tool.repo_path, shared by the runs                *)
(*   state.clones    the runs whose clone directory exists on disk         *)
(***************************************************************************)
\* the i-th repository reference and document path of a batch
RepoUrl(i) == [repo |-> i]
PdfPath(i) == [path |-> "report.pdf", of |-> i]

\* an optional list argument that is given: None stands for one that is not
Given(list) == [list |-> list]

\* `if pdf_paths`: neither None nor the empty list
Truthy(optional) == optional # None /\ optional.list # Empty

\* variant: only a list that is too short is rejected
TooFewPdfPaths(repo_urls, pdf_paths) ==
    Truthy(pdf_paths) /\ Len(pdf_paths.list) < Len(repo_urls)

\* the condition under which batch_run raises ValueError
PdfCountMismatch(repo_urls, pdf_paths) ==
    Truthy(pdf_paths) /\ Len(pdf_paths.list) # Len(repo_urls)

\* the coroutines batch_run creates: run i on repo_urls[i] and its document
BatchTasks(repo_urls, pdf_paths) ==
    [i \in DOMAIN repo_urls |->
        [at |-> "repo_investigator",
         repo_path |-> None,
         state |-> InputChannels(initial_state(
                      repo_urls[i],
                      IF Truthy(pdf_paths) THEN pdf_paths.list[i] ELSE None))]]

\* a run has returned its final state or raised
Settled(run) == run.at \in {"done", "raised"}

\* variant: asyncio.gather without return_exceptions: the first exception
\* of a run is raised out of batch_run
gather_propagating(runs) ==
    IF \E i \in DOMAIN runs : runs[i].at = "raised"
    THEN [raises |-> TRUE, error |-> "run failed"]
    ELSE [raises |-> FALSE, value |-> [i \in DOMAIN runs |-> runs[i].state]]

\* asyncio.gather(*tasks, return_exceptions=True) once every task is settled
gather(runs) ==
    [raises |-> FALSE,
     value |-> [i \in DOMAIN runs |->
                  IF runs[i].at = "raised" THEN [exception |-> "run failed"]
                  ELSE runs[i].state]]

\* the update of repo_investigator when the clone or an analysis raised
InvestigationFailed ==
    [evidence_errors |-> <<"Repo investigation failed">>, repo_cloned |-> FALSE]

BatchInit ==
    /\ state = [runs |-> Empty, repo_path |-> None, clones |-> {}]
    /\ pc = "batch_run"
    /\ writes = Empty
    /\ route = "none"
    /\ arg \in {[fn |-> "batch_run", repo_urls |-> [i \in 1..n |-> RepoUrl(i)],
                 pdf_paths |-> p] :
                  n \in 0..MaxBatch,
                  p \in {None} \cup {Given([i \in 1..m |-> PdfPath(i)]) :
                                        m \in 0..(MaxBatch + 1)}}
    /\ ret = None

\* batch_run up to the await of gather: the count check and the task list
BatchRun ==
    /\ pc = "batch_run"
    /\ IF PdfCountMismatch(arg.repo_urls, arg.pdf_paths)
       THEN /\ ret' = [raises |-> TRUE, error |-> "ValueError"]
            /\ pc' = "raised"
            /\ state' = state
       ELSE /\ state' = [state EXCEPT !.runs = BatchTasks(arg.repo_urls, arg.pdf_paths)]
            /\ pc' = "gather"
            /\ ret' = ret
    /\ UNCHANGED <<writes, route, arg>>

\* clone_repository in a run i: git_tool.repo_path is set to the run's clone
\* directory, then the clone is made or fails
CloneRepository ==
    \E i \in DOMAIN state.runs :
    /\ pc = "gather"
    /\ state.runs[i].at = "repo_investigator"
    /\ \E cloned \in BOOLEAN :
          state' =
             [state EXCEPT
                !.repo_path = [clone |-> i],
                !.clones = IF cloned THEN @ \cup {i} ELSE @,
                !.runs[i] =
                    IF cloned
                    THEN [@ EXCEPT !.at = "analysis", !.repo_path = [clone |-> i]]
                    ELSE [@ EXCEPT !.at = "rest",
                                   !.state = ApplyUpdate(@, InvestigationFailed)]]
    /\ UNCHANGED <<pc, writes, route, arg, ret>>

\* the two analyses of run i, run after the await of asyncio.gather:
\* analyze_git_history opens git_tool.repo_path, analyze_codebase the
\* directory clone_repository returned to this run
Analyse ==
    \E i \in DOMAIN state.runs :
    /\ pc = "gather"
    /\ state.runs[i].at = "analysis"
    /\ state' =
          [state EXCEPT !.runs[i] =
              IF state.repo_path.clone \in state.clones
              THEN [@ EXCEPT
                      !.at = "cleanup",
                      !.state = ApplyUpdate(@,
                          [evidences |->
                              [git |-> [history_of |->
                                          state.runs[state.repo_path.clone].state.repo_url],
                               code |-> [structure_of |->
                                           IF i \in state.clones
                                           THEN state.runs[i].state.repo_url
                                           ELSE [repo |-> 0]],
                               pdf |-> None, images |-> None, raw_evidence |-> Empty],
                           repo_cloned |-> TRUE])]
              ELSE [@ EXCEPT !.at = "rest",
                             !.state = ApplyUpdate(@, InvestigationFailed)]]
    /\ UNCHANGED <<pc, writes, route, arg, ret>>

\* git_tool.cleanup() in run i: the directory git_tool.repo_path names is
\* removed if it exists
Cleanup ==
    \E i \in DOMAIN state.runs :
    /\ pc = "gather"
    /\ state.runs[i].at = "cleanup"
    /\ state' = [state EXCEPT !.clones = @ \ {state.repo_path.clone},
                              !.runs[i].at = "rest"]
    /\ UNCHANGED <<pc, writes, route, arg, ret>>

\* the rest of run i: graph.ainvoke returns the final state or raises
Finish ==
    \E i \in DOMAIN state.runs :
    /\ pc = "gather"
    /\ state.runs[i].at = "rest"
    /\ \E outcome \in {"done", "raised"} :
          state' = [state EXCEPT !.runs[i].at = outcome]
    /\ UNCHANGED <<pc, writes, route, arg, ret>>

\* every run is settled: gather returns and batch_run returns its results
BatchReturn ==
    /\ pc = "gather"
    /\ \A i \in DOMAIN state.runs : Settled(state.runs[i])
    /\ ret' = gather(state.runs)
    /\ pc' = IF ret'.raises THEN "raised" ELSE "returned"
    /\ UNCHANGED <<state, writes, route, arg>>

BatchNext ==
    \/ BatchRun
    \/ CloneRepository
    \/ Analyse
    \/ Cleanup
    \/ Finish
    \/ BatchReturn

BatchSpec == BatchInit /\ [][BatchNext]_vars

(***************************************************************************)
(* Properties of the Evidence Gate and the Judgment Gate.                  *)
(***************************************************************************)
\* C1: the Evidence Gate decision is the first match of: clone failed ->
\* ABORT; more than 3 errors -> ABORT; history or structure evidence absent
\* -> RETRY; error list non-empty -> RETRY; otherwise PROCEED.
C1_EvidenceRouteFirstMatch ==
    (ret # None /\ arg.fn = "route_based_on_evidence") =>
        LET s == arg.state
        IN  ret.decision =
              CASE ~s.repo_cloned -> "abort"
                [] s.repo_cloned /\ Len(s.evidence_errors) > 3 -> "abort"
                [] s.repo_cloned /\ Len(s.evidence_errors) <= 3
                   /\ (s.evidences.git = None \/ s.evidences.code = None)
                     -> "retry_detectives"
                [] s.repo_cloned /\ Len(s.evidence_errors) \in 1..3
                   /\ s.evidences.git # None /\ s.evidences.code # None
                     -> "retry_detectives"
                [] OTHER -> "proceed_to_judges"

\* C1 case: 4 errors with the clone ok were routed to ABORT
C1_FourErrorsAbort ==
    /\ ret # None
    /\ arg.fn = "route_based_on_evidence"
    /\ arg.state.repo_cloned
    /\ Len(arg.state.evidence_errors) = 4
    /\ ret.decision = "abort"

\* C2: whenever the scoring fan-out is dispatched, repo_cloned is true, the
\* evidence-error list is empty and both history and structure evidence are
\* present.
C2_ScoringOnlyOnCleanEvidence ==
    pc \in {"judge_dispatch", "judges"} =>
        /\ state.repo_cloned = TRUE
        /\ state.evidence_errors = Empty
        /\ state.evidences.git # None
        /\ state.evidences.code # None

\* C2 case: the scoring fan-out has been dispatched
C2_ScoringDispatched ==
    /\ pc = "judges"
    /\ route = "proceed_to_judges"
    /\ state.evidences.git # None

\* C3 as stated: clone ok, exactly 3 errors and both kinds of evidence present
\* are routed to PROCEED.
C3_ThreeErrorsProceed ==
    (/\ ret # None
     /\ arg.fn = "route_based_on_evidence"
     /\ arg.state.repo_cloned
     /\ Len(arg.state.evidence_errors) = 3
     /\ arg.state.evidences.git # None
     /\ arg.state.evidences.code # None)
    => ret.decision = "proceed_to_judges"

\* C3: clone ok, exactly 3 errors and both kinds of evidence present are
\* routed to RETRY (3 errors do not exceed the threshold, and a non-empty
\* error list is retried).
C3_ThreeErrorsRetry ==
    (/\ ret # None
     /\ arg.fn = "route_based_on_evidence"
     /\ arg.state.repo_cloned
     /\ Len(arg.state.evidence_errors) = 3
     /\ arg.state.evidences.git # None
     /\ arg.state.evidences.code # None)
    => ret.decision = "retry_detectives"

\* C3 case: the gate was evaluated on 3 errors with everything else in order
C3_ThreeErrorsRouted ==
    /\ ret # None
    /\ arg.fn = "route_based_on_evidence"
    /\ arg.state.repo_cloned
    /\ Len(arg.state.evidence_errors) = 3
    /\ arg.state.evidences.git # None
    /\ arg.state.evidences.code # None
    /\ ret.decision \in {"proceed_to_judges", "retry_detectives", "abort"}

\* C4: under fair scheduling every run ends, either aborted by the Evidence
\* Gate or after Synthesis and Report Assembly (a report and its path
\* exist); in particular the evidence fan-out is not re-dispatched forever.
C4_EveryRunTerminates ==
    <>(/\ pc = "END"
       /\ \/ route = "abort"
          \/ (state.audit_report # None /\ state.report_path # None))

\* C4 case: a run that retried the evidence fan-out and was then aborted on
\* the error threshold
C4_AbortedAfterRetry ==
    /\ pc = "END"
    /\ route = "abort"
    /\ state.repo_cloned = TRUE
    /\ Len(state.evidence_errors) > 3

\* C5 as stated: a run the Evidence Gate aborts ends with an AuditReport and
\* a report path.
C5_AbortedRunHasReport ==
    (pc = "END" /\ route = "abort") =>
        (state.audit_report # None /\ state.report_path # None)

\* C10: the Judgment Gate returns RETRY exactly when the judge-error list is
\* non-empty and judge_attempts < 1 and PROCEED otherwise; it never aborts.
C10_JudgeRouteRetryOnce ==
    (ret # None /\ arg.fn = "route_based_on_judges") =>
        LET s == arg.state
            errors == IF "judge_errors" \in DOMAIN s THEN s.judge_errors ELSE << >>
            attempts == IF "judge_attempts" \in DOMAIN s THEN s.judge_attempts ELSE 0
        IN  /\ ret.decision \in {"retry_judges", "proceed_to_justice"}
            /\ ret.decision = "retry_judges" <=> (Len(errors) > 0 /\ attempts < 1)
            /\ attempts = 1 => ret.decision = "proceed_to_justice"

\* C10 case: errors remain after one attempt and the gate proceeds
C10_ProceedsAfterOneAttempt ==
    /\ ret # None
    /\ arg.fn = "route_based_on_judges"
    /\ "judge_errors" \in DOMAIN arg.state
    /\ Len(arg.state.judge_errors) > 0
    /\ arg.state.judge_attempts = 1
    /\ ret.decision = "proceed_to_justice"

C7_SecurityOverrideIff ==
    (ret # None /\ arg.fn = "deliberate_criterion") =>
        LET ops == arg.judgment.opinions
            Mentions(o) ==
                \E i \in DOMAIN o.argument :
                    LowerFragment(o.argument[i])
                        \in {"security", "vulnerability", "bypass", "injection"}
        IN  /\ ret.security_override_applied
                <=> \E i \in DOMAIN ops :
                       /\ ops[i].judge = "Prosecutor"
                       /\ ops[i].score <= 1
                       /\ Mentions(ops[i])
            /\ (\E i \in DOMAIN ops : ops[i].judge = "Prosecutor" /\ ops[i].score = 2)
                  => ~ret.security_override_applied

\* C7 case: a Prosecutor score of 2 with a keyword match, and no override
C7_ScoreTwoWithKeyword ==
    /\ ret # None
    /\ arg.fn = "deliberate_criterion"
    /\ \E i \in DOMAIN arg.judgment.opinions :
          /\ arg.judgment.opinions[i].judge = "Prosecutor"
          /\ arg.judgment.opinions[i].score = 2
          /\ arg.judgment.opinions[i].argument = <<"SQL ", "Injection", " in handler">>
    /\ ~ret.security_override_applied

\* C8: fact_supremacy_applied is true iff a Defense opinion exists with
\* score >= 4 and at least one of its citations fails verification against
\* the evidence collection; it is false when every citation verifies or
\* the Defense score is below 4.
C8_FactSupremacyIff ==
    (ret # None /\ arg.fn = "deliberate_criterion") =>
        LET ops == arg.judgment.opinions
            Fails(o) ==
                \E i \in DOMAIN o.cited_evidence :
                    ~CitationVerified(o.cited_evidence[i], arg.evidences)
        IN  /\ ret.fact_supremacy_applied
                <=> \E i \in DOMAIN ops :
                       /\ ops[i].judge = "Defense"
                       /\ ops[i].score >= 4
                       /\ Fails(ops[i])
            /\ (\A i \in DOMAIN ops :
                    ops[i].judge = "Defense" => (ops[i].score < 4 \/ ~Fails(ops[i])))
                  => ~ret.fact_supremacy_applied

\* C8 case: a Defense score of 4 with one citation that verifies and one
\* that does not, and fact supremacy applied
C8_OneCitationFails ==
    /\ ret # None
    /\ arg.fn = "deliberate_criterion"
    /\ \E i \in DOMAIN arg.judgment.opinions :
          LET o == arg.judgment.opinions[i]
          IN  /\ o.judge = "Defense"
              /\ o.score = 4
              /\ Len(o.cited_evidence) = 2
              /\ CitationVerified(o.cited_evidence[1], arg.evidences)
              /\ ~CitationVerified(o.cited_evidence[2], arg.evidences)
    /\ ret.fact_supremacy_applied

\* C9: after Synthesis final_verdicts holds exactly one FinalVerdict for
\* every rubric criterion, none missing and none duplicated, each with
\* final_score in 0..5, also when the opinions are fallback opinions.
C9_OneVerdictPerCriterion ==
    (pc = "report_generator" \/ (pc = "END" /\ route = "proceed_to_justice")) =>
        LET fv == state.final_verdicts
        IN  /\ Len(fv) = Len(Rubric)
            /\ \A i \in DOMAIN Rubric :
                  Cardinality({j \in DOMAIN fv : fv[j].criterion_id = Rubric[i].id}) = 1
            /\ \A j \in DOMAIN fv : fv[j].final_score \in 0..5

\* C9 case: Synthesis has run on a criterion all of whose opinions are
\* fallback opinions (score 1, confidence 0.1)
C9_AllFallback ==
    /\ pc = "report_generator"
    /\ state.final_verdicts # Empty
    /\ \E i \in DOMAIN Rubric :
          \A j \in DOMAIN state.opinions :
              state.opinions[j].criterion_id = Rubric[i].id
                  => (state.opinions[j].score = 1 /\ state.opinions[j].confidence = 1)

C12_ScoringReachesSynthesis ==
    /\ (pc = "judges") ~> (pc = "chief_justice")
    /\ [](Len(state.opinions) <= 2 * 3 * Len(Rubric))

\* C12 case: Synthesis is about to start after a scoring attempt in which
\* a worker failed
C12_SynthesisAfterFailure ==
    /\ pc = "chief_justice"
    /\ \E i \in DOMAIN state.opinions : state.opinions[i].confidence = 1

\* C14: a persona branch returns exactly one opinion for every rubric
\* criterion, tagged with the branch's persona and the criterion's id,
\* whatever the worker's output named and whether the worker succeeded.
C14_OneTaggedOpinionPerCriterion ==
    (ret # None /\ arg.fn = "judge_criteria") =>
        /\ Len(ret.opinions) = Len(Rubric)
        /\ \A i \in DOMAIN Rubric :
              Cardinality({j \in DOMAIN ret.opinions :
                              ret.opinions[j].criterion_id = Rubric[i].id}) = 1
        /\ \A j \in DOMAIN ret.opinions : ret.opinions[j].judge = arg.persona

\* C14 case: the worker named another persona and an unknown criterion for
\* the first criterion and failed for the second
C14_MisnamedAndFailed ==
    /\ ret # None
    /\ arg.fn = "judge_criteria"
    /\ arg.outs[1].ok
    /\ arg.outs[1].result.judge # arg.persona
    /\ arg.outs[1].result.criterion_id = "unknown_criterion"
    /\ ~arg.outs[2].ok
    /\ Len(ret.opinions) = Len(Rubric)

\* C15: a worker failure for a criterion is not propagated and does not end
\* the judging: the branch returns its update, with a fallback opinion
\* (score 1, confidence 0.1, no cited evidence, the failure description as
\* argument) for that criterion and the worker's opinions for the others.
C15_FailureBecomesFallback ==
    (ret # None /\ arg.fn = "judge_criteria") =>
        /\ DOMAIN ret = {"opinions", "criterion_judgments"}
        /\ DOMAIN ret.opinions = DOMAIN Rubric
        /\ \A i \in DOMAIN Rubric :
              IF arg.outs[i].ok
              THEN /\ ret.opinions[i].score = arg.outs[i].result.score
                   /\ ret.opinions[i].argument = arg.outs[i].result.argument
              ELSE /\ ret.opinions[i].score = 1
                   /\ ret.opinions[i].confidence = 1
                   /\ ret.opinions[i].cited_evidence = << >>
                   /\ ret.opinions[i].argument
                         = <<"Judgment failed: ">> \o arg.outs[i].error

\* C15 case: the worker failed for the first criterion and succeeded for
\* the second
C15_FailedThenJudged ==
    /\ ret # None
    /\ arg.fn = "judge_criteria"
    /\ ~arg.outs[1].ok
    /\ arg.outs[2].ok
    /\ ret.opinions[1].score = 1
    /\ ret.opinions[2].score = arg.outs[2].result.score

C16_MergeAssociative ==
    (ret # None /\ arg.fn = "merge_evidences") => ret.left_first = ret.right_first

\* C16 case: the three collections hold different components and file raw
\* evidence under overlapping keys
C16_OverlappingTriple ==
    /\ ret # None
    /\ arg.fn = "merge_evidences"
    /\ arg.left.git # None /\ arg.right.git = None /\ arg.third.git # None
    /\ arg.left.code # None /\ arg.right.code # None /\ arg.third.code = None
    /\ DOMAIN arg.left.raw_evidence = RawKeys
    /\ DOMAIN arg.right.raw_evidence = {"git_commits"}
    /\ DOMAIN arg.third.raw_evidence = {"pdf_text"}
    /\ ret.left_first.git = arg.third.git
    /\ ret.left_first.code = arg.right.code

\* C17: the merge of two collections holds, for each component, right's if
\* right has it and otherwise left's, and its raw evidence has every key of
\* both with right's entry where both have the key.
C17_RightPresenceWins ==
    (ret # None /\ arg.fn = "merge_evidences") =>
       /\ \A k \in {"git", "code", "pdf", "images"} :
             ret.merged[k] = IF arg.right[k] # None THEN arg.right[k] ELSE arg.left[k]
       /\ DOMAIN ret.merged.raw_evidence
             = DOMAIN arg.left.raw_evidence \cup DOMAIN arg.right.raw_evidence
       /\ \A k \in DOMAIN ret.merged.raw_evidence :
             ret.merged.raw_evidence[k]
                = IF k \in DOMAIN arg.right.raw_evidence
                  THEN arg.right.raw_evidence[k] ELSE arg.left.raw_evidence[k]

\* C17 case: left has a component right lacks, both have another, and both
\* file raw evidence under the same key
C17_KeptAndOverridden ==
    /\ ret # None
    /\ arg.fn = "merge_evidences"
    /\ arg.left.git # None /\ arg.right.git = None
    /\ arg.left.pdf # None /\ arg.right.pdf # None
    /\ "git_commits" \in DOMAIN arg.left.raw_evidence \cap DOMAIN arg.right.raw_evidence
    /\ ret.merged.git = arg.left.git
    /\ ret.merged.pdf = arg.right.pdf

\* C18: the merge of two judgment maps has the criteria of both; a criterion
\* of one side only keeps its judgment, and a criterion of both sides has
\* left's opinions followed by right's.
C18_JudgmentsConcatenated ==
    (ret # None /\ arg.fn = "merge_criterion_judgments") =>
        /\ {ret.merged[i].criterion_id : i \in DOMAIN ret.merged}
              = {arg.left[i].criterion_id : i \in DOMAIN arg.left}
                \cup {arg.right[i].criterion_id : i \in DOMAIN arg.right}
        /\ \A i, j \in DOMAIN ret.merged :
              i # j => ret.merged[i].criterion_id # ret.merged[j].criterion_id
        /\ \A i \in DOMAIN ret.merged :
              LET key == ret.merged[i].criterion_id
                  l == KeyIndex(arg.left, key)
                  r == KeyIndex(arg.right, key)
              IN  IF l # 0 /\ r # 0
                  THEN /\ ret.merged[i].opinions
                             = arg.left[l].opinions \o arg.right[r].opinions
                       /\ ret.merged[i].criterion_name = arg.left[l].criterion_name
                  ELSE IF l # 0 THEN ret.merged[i] = arg.left[l]
                  ELSE ret.merged[i] = arg.right[r]

\* C18 case: one criterion is judged on both sides, the other on the right
\* only
C18_CollisionAndNewKey ==
    /\ ret # None
    /\ arg.fn = "merge_criterion_judgments"
    /\ Len(arg.left) = 1
    /\ Len(arg.right) = 2
    /\ arg.right[2].criterion_id = arg.left[1].criterion_id
    /\ Len(ret.merged) = 2
    /\ Len(ret.merged[1].opinions)
          = Len(arg.left[1].opinions) + Len(arg.right[2].opinions)

C20_FanInIsBarrier ==
    [][ /\ (pc' = "evidence_aggregator") =>
              /\ pc = "detectives"
              /\ \A n \in Detectives : \E i \in DOMAIN writes : writes[i].node = n
              /\ Len(writes) = Cardinality(Detectives)
              /\ state' = ApplyWrites(state, InTaskOrder(writes))
        /\ (pc' = "judge_aggregator") =>
              /\ pc = "judges"
              /\ \A n \in Judges : \E i \in DOMAIN writes : writes[i].node = n
              /\ Len(writes) = Cardinality(Judges)
              /\ state' = ApplyWrites(state, InTaskOrder(writes))
              /\ Len(state'.opinions) = Len(state.opinions) + 3 * Len(Rubric)
        /\ (pc' \in {"evidence_aggregator", "evidence_gate", "judge_aggregator"}) =>
              writes' = Empty ]_vars

\* C20 case: the judgment aggregator is about to run on the opinions of all
\* three personas, over the evidence the collectors' fan-in merged
C20_AggregatorAfterAllBranches ==
    /\ pc = "judge_aggregator"
    /\ writes = Empty
    /\ Len(state.opinions) = 3 * Len(Rubric)
    /\ \A p \in Personas : \E i \in DOMAIN state.opinions : state.opinions[i].judge = p
    /\ state.evidences.git # None

\* C21: while the branches of a fan-out run, the state they read stays as
\* it was at dispatch: a returned update is held back until the fan-in; and
\* the diagram collector analyses images only if the state at dispatch
\* holds extracted images, whatever the document collector of the same
\* attempt has returned.
C21_BranchesReadDispatchState ==
    [][ /\ (pc \in {"detectives", "judges"} /\ pc' = pc) => state' = state
        /\ (pc = "detectives" /\ Len(writes') = Len(writes) + 1
            /\ writes'[Len(writes')].node = "vision_inspector"
            /\ "pdf_images" \notin DOMAIN state.evidences.raw_evidence)
           => writes'[Len(writes')].update
                 = [detective_status |-> [vision_inspector |-> "skipped"]] ]_vars

\* C21 case: the repository collector has returned its evidence and the
\* diagram collector returned after it, while the state the branches read
\* still holds no evidence
C21_SiblingUpdateHeldBack ==
    /\ pc = "detectives"
    /\ Len(writes) = 2
    /\ writes[1].node = "repo_investigator"
    /\ "evidences" \in DOMAIN writes[1].update
    /\ writes[2].node = "vision_inspector"
    /\ state.evidences = EmptyCollection

\* C22: the fan-in of the collectors merges what every collector returned:
\* each evidence component and raw-evidence entry a collector returned and
\* each error a collector reported are in the merged state, also when a
\* sibling failed, and the evidence aggregator keeps them for the gate.
C22_SiblingsSurviveFailure ==
    [][ /\ (pc = "detectives" /\ pc' = "evidence_aggregator") =>
              \A i \in DOMAIN writes :
                 /\ "evidences" \in DOMAIN writes[i].update =>
                       /\ \A k \in {"git", "code", "pdf", "images"} :
                             writes[i].update.evidences[k] # None =>
                                state'.evidences[k] = writes[i].update.evidences[k]
                       /\ \A k \in DOMAIN writes[i].update.evidences.raw_evidence :
                             /\ k \in DOMAIN state'.evidences.raw_evidence
                             /\ state'.evidences.raw_evidence[k]
                                   = writes[i].update.evidences.raw_evidence[k]
                 /\ "evidence_errors" \in DOMAIN writes[i].update =>
                       \E j \in DOMAIN state'.evidence_errors :
                          state'.evidence_errors[j] = writes[i].update.evidence_errors[1]
        /\ (pc = "evidence_aggregator") =>
              /\ state'.evidences = state.evidences
              /\ \A j \in DOMAIN state.evidence_errors :
                    state'.evidence_errors[j] = state.evidence_errors[j] ]_vars

\* C22 case: the Evidence Gate is about to run on the repository
\* collector's evidence and the document collector's error
C22_EvidenceBesideError ==
    /\ pc = "evidence_gate"
    /\ state.evidences.git # None
    /\ state.evidences.code # None
    /\ "git_commits" \in DOMAIN state.evidences.raw_evidence
    /\ \E j \in DOMAIN state.evidence_errors :
          state.evidence_errors[j] = "Document analysis failed"

(***************************************************************************)
(* Properties of batch_run.                                                *)
(***************************************************************************)
\* C23: when the runs of a batch are over, batch_run returns one result per
\* repository reference, in input order: for a run that raised its
\* exception, for every other run the final state that run reached.
C23_OneResultPerRun ==
    (pc \in {"returned", "raised"} /\ Len(state.runs) > 0) =>
        /\ ~ret.raises
        /\ Len(ret.value) = Len(arg.repo_urls)
        /\ \A i \in DOMAIN arg.repo_urls :
              IF state.runs[i].at = "raised"
              THEN ret.value[i] = [exception |-> "run failed"]
              ELSE /\ state.runs[i].at = "done"
                   /\ ret.value[i] = state.runs[i].state
                   /\ ret.value[i].repo_url = arg.repo_urls[i]

\* C23 case: the first run of a batch raised and the second returned the
\* evidence of its repository
C23_FailedBesideCompleted ==
    /\ pc = "returned"
    /\ Len(ret.value) = 2
    /\ state.runs[1].at = "raised"
    /\ ret.value[1] = [exception |-> "run failed"]
    /\ state.runs[2].at = "done"
    /\ ret.value[2].repo_url = RepoUrl(2)
    /\ ret.value[2].evidences.git = [history_of |-> RepoUrl(2)]

\* C24: in every interleaving of the runs of a batch, the history evidence
\* in a run's state comes from that run's own clone and the structure
\* evidence from its own repository, and while a run analyses its clone,
\* the clone exists and is the one the git tool points to.
C24_RunsAreIsolated ==
    \A i \in DOMAIN state.runs :
        /\ state.runs[i].state.evidences.git # None =>
              state.runs[i].state.evidences.git.history_of
                 = state.runs[i].state.repo_url
        /\ state.runs[i].state.evidences.code # None =>
              state.runs[i].state.evidences.code.structure_of
                 = state.runs[i].state.repo_url
        /\ state.runs[i].at \in {"analysis", "cleanup"} =>
              /\ i \in state.clones
              /\ state.repo_path = [clone |-> i]

\* C28: batch_run given document paths whose count differs from the number
\* of repository references raises before a run exists; otherwise run i is
\* given document path i, or none when no paths are supplied.
C28_PdfPathsAligned ==
    (pc # "batch_run") =>
        IF arg.pdf_paths # None /\ Len(arg.pdf_paths.list) > 0
           /\ Len(arg.pdf_paths.list) # Len(arg.repo_urls)
        THEN /\ pc = "raised"
             /\ ret = [raises |-> TRUE, error |-> "ValueError"]
             /\ state.runs = Empty
             /\ state.clones = {}
        ELSE /\ Len(state.runs) = Len(arg.repo_urls)
             /\ \A i \in DOMAIN state.runs :
                   /\ state.runs[i].state.repo_url = arg.repo_urls[i]
                   /\ state.runs[i].state.pdf_path
                         = IF arg.pdf_paths # None /\ Len(arg.pdf_paths.list) > 0
                           THEN arg.pdf_paths.list[i] ELSE None

\* C28 case: three document paths for two repositories
C28_TooManyPdfPaths ==
    /\ pc = "raised"
    /\ Len(arg.repo_urls) = 2
    /\ arg.pdf_paths # None
    /\ Len(arg.pdf_paths.list) = 3
    /\ ret = [raises |-> TRUE, error |-> "ValueError"]

(***************************************************************************)
(* Frame properties of the stages after evidence collection.               *)
(***************************************************************************)
\* C25: from the dispatch of the scoring fan-out on, no step changes the
\* evidence collection, and the run never goes back to a stage that
\* collects evidence.
C25_EvidenceFrozenInScoring ==
    [][ (pc \in {"judge_dispatch", "judges", "judge_aggregator", "chief_justice",
                 "report_generator"})
        => /\ state'.evidences = state.evidences
           /\ pc' \in {"judge_dispatch", "judges", "judge_aggregator",
                       "chief_justice", "report_generator", "END"} ]_vars

\* C25 case: Synthesis has run on the collected evidence and the report
\* stage is next
C25_SynthesisedOverEvidence ==
    /\ pc = "report_generator"
    /\ state.evidences.git # None
    /\ state.evidences.code # None
    /\ Len(state.final_verdicts) = Len(Rubric)

\* C26: the report stage changes nothing but report_path: the verdicts,
\* with their scores, dissents and remediation plans, and the audit report,
\* with its narratives, are the same after it as before.
C26_ReportStageWritesPathOnly ==
    [][ (pc = "report_generator")
        => /\ state'.final_verdicts = state.final_verdicts
           /\ state'.audit_report = state.audit_report
           /\ \A k \in DOMAIN state \ {"report_path"} : state'[k] = state[k] ]_vars

\* C26 case: the run has ended with a report path, its verdicts and report
C26_ReportWritten ==
    /\ pc = "END"
    /\ state.report_path # None
    /\ state.audit_report # None
    /\ Len(state.final_verdicts) = Len(Rubric)

(***************************************************************************)
(* Properties of the collectors' returns.                                  *)
(***************************************************************************)
\* C27: every update a collector returns carries a status of done, failed
\* or skipped for that collector: failed and no evidence when it reports an
\* error, done when it carries evidence; and the state the Evidence Gate
\* reads holds no status that is still pending.
C27_EveryReturnHasStatus ==
    /\ \A i \in DOMAIN writes :
          writes[i].node \in Detectives =>
             /\ "detective_status" \in DOMAIN writes[i].update
             /\ DOMAIN writes[i].update.detective_status = {writes[i].node}
             /\ writes[i].update.detective_status[writes[i].node]
                   \in {"done", "failed", "skipped"}
             /\ "evidence_errors" \in DOMAIN writes[i].update =>
                   /\ writes[i].update.detective_status[writes[i].node] = "failed"
                   /\ "evidences" \notin DOMAIN writes[i].update
             /\ "evidences" \in DOMAIN writes[i].update =>
                   writes[i].update.detective_status[writes[i].node] = "done"
    /\ pc = "evidence_gate" =>
          \A n \in DOMAIN Get(state, "detective_status", Empty) :
             state.detective_status[n] # "pending"

(***************************************************************************)
(* Properties of the synthesis rules.                                      *)
(***************************************************************************)
\* C29: a verdict on which the security override was applied has a final
\* score of at most 3, also when fact supremacy was applied to it.
C29_SecurityOverrideCaps ==
    (ret # None /\ arg.fn = "deliberate_criterion") =>
        (ret.security_override_applied => ret.final_score <= 3)

\* C30: an opinion verifies exactly if each of its citations passes both
\* checks on its own: one that mentions architecture_notes needs structure
\* evidence with architecture_notes_exists, and one that mentions git needs
\* history evidence with a commit, whatever else it mentions.
C30_CitationsCheckedIndependently ==
    (ret # None /\ arg.fn = "verify_defense_claims") =>
        (ret.verified <=>
            \A i \in DOMAIN arg.defense.cited_evidence :
               LET text == arg.defense.cited_evidence[i]
               IN  /\ (\E k \in DOMAIN text :
                          text[k] \in {"architecture_notes", "ARCHITECTURE_NOTES",
                                       "Architecture_Notes"})
                         => /\ arg.evidences.code # None
                            /\ arg.evidences.code.architecture_notes_exists
                   /\ (\E k \in DOMAIN text : text[k] \in {"git", "Git", "GIT"})
                         => /\ arg.evidences.git # None
                            /\ arg.evidences.git.commit_count > 0)

(***************************************************************************)
(* Properties of the evidence retry loop.                                  *)
(***************************************************************************)
\* C31: no step of a run shortens the evidence-error list or changes an
\* entry already in it, and an Evidence Gate pass that finds the list
\* non-empty routes to a retry or to the abort, never to the scoring stage.
C31_ErrorsNeverCleared ==
    [][ /\ Len(state'.evidence_errors) >= Len(state.evidence_errors)
        /\ \A j \in DOMAIN state.evidence_errors :
              state'.evidence_errors[j] = state.evidence_errors[j]
        /\ (pc = "evidence_gate" /\ state.evidence_errors # Empty)
              => /\ route' \in {"retry_detectives", "abort"}
                 /\ pc' \in {"detective_dispatch", "END"} ]_vars

\* C31 case: the evidence fan-out was dispatched again with the errors of
\* the first attempt still in the list
C31_RedispatchedWithErrors ==
    /\ pc = "detectives"
    /\ route = "retry_detectives"
    /\ state.evidence_errors # Empty
    /\ state.evidences.git # None

(***************************************************************************)
(* Synthesis over accumulated opinions: AccumSpec applies                  *)
(* _deliberate_criterion and the narrative of _generate_report to          *)
(* judgments whose opinion list holds the opinions of one or more scoring  *)
(* attempts, each attempt with one opinion of every persona.               *)
(***************************************************************************)
\* the opinions one scoring attempt appends to the judgment of Rubric[1]
AttemptOpinions ==
    { << [judge |-> "Prosecutor", criterion_id |-> Rubric[1].id, score |-> p[1],
          argument |-> p[2], cited_evidence |-> Empty, confidence |-> 9],
         [judge |-> "Defense", criterion_id |-> Rubric[1].id, score |-> d[1],
          argument |-> d[2], cited_evidence |-> d[3], confidence |-> 8],
         [judge |-> "TechLead", criterion_id |-> Rubric[1].id, score |-> t[1],
          argument |-> t[2], cited_evidence |-> Empty, confidence |-> 7] >> :
        p \in { <<1, <<"found a ", "security", " ", "vulnerability">> >>,
                <<4, <<"incomplete">> >> },
        d \in { <<5, <<"good effort">>, << <<"Git", " log">> >> >>,
                <<2, <<"some effort">>, Empty>> },
        t \in { <<2, <<"fragile">> >>, <<4, <<"works">> >> } }

RECURSIVE Accumulated(_)
\* the opinion lists merge_criterion_judgments leaves after n attempts
Accumulated(n) ==
    IF n = 0 THEN {Empty}
    ELSE { earlier \o attempt : earlier \in Accumulated(n - 1),
                                attempt \in AttemptOpinions }

AccumInit ==
    /\ Idle
    /\ arg \in {[fn |-> "synthesize",
                 judgment |-> [criterion_id |-> Rubric[1].id,
                               criterion_name |-> Rubric[1].name,
                               opinions |-> o],
                 evidences |-> [EmptyCollection EXCEPT !.git = g]] :
                  o \in UNION { Accumulated(n) : n \in 1..MaxAttempts },
                  g \in {None, [commit_count |-> 1]}}
    /\ ret = None

\* the verdict of the judgment and its narrative in the report
DeliberateAccumulated ==
    /\ ret = None
    /\ arg.fn = "synthesize"
    /\ \E verdict \in { deliberate_criterion(arg.judgment, arg.evidences) } :
          ret' = [verdict |-> verdict,
                  narrative |-> Narrative(arg.judgment, verdict)]
    /\ UNCHANGED <<state, pc, writes, route, arg>>

AccumNext == DeliberateAccumulated

AccumSpec == AccumInit /\ [][AccumNext]_vars

\* the judgment reduced to the most recent opinion of every persona
MostRecent(judgment) ==
    [judgment EXCEPT !.opinions =
        << LastOpinion(judgment.opinions, "Prosecutor"),
           LastOpinion(judgment.opinions, "Defense"),
           LastOpinion(judgment.opinions, "TechLead") >>]

\* C32: for each persona Synthesis uses one opinion everywhere, the most
\* recent one when the judgment holds several: the final score and the two
\* override flags are those the most recent opinions give, and the persona
\* lines of the dissent summary and of the narrative are taken from the same
\* opinions.
C32_OneOpinionPerPersona ==
    (ret # None /\ arg.fn = "synthesize") =>
        \E recent \in { deliberate_criterion(MostRecent(arg.judgment), arg.evidences) } :
            /\ ret.verdict.final_score = recent.final_score
            /\ ret.verdict.security_override_applied = recent.security_override_applied
            /\ ret.verdict.fact_supremacy_applied = recent.fact_supremacy_applied
            /\ SubSeq(ret.verdict.dissent_summary, 1, 3)
                  = SubSeq(recent.dissent_summary, 1, 3)
            /\ SubSeq(ret.narrative, Len(ret.narrative) - 2, Len(ret.narrative))
                  = SubSeq(Narrative(MostRecent(arg.judgment), recent),
                           Len(Narrative(MostRecent(arg.judgment), recent)) - 2,
                           Len(Narrative(MostRecent(arg.judgment), recent)))

\* C33: the verdicts depend on the opinions, not on the order in which the
\* persona branches completed: when all three have returned, the final
\* verdicts (score, flags, dissent summary, remediation plan) synthesised
\* from the updates merged in any order are those synthesised from the
\* state the fan-in produces.
C33_VerdictOrderIndependent ==
    (/\ pc = "judges"
     /\ \A n \in Judges : \E i \in DOMAIN writes : writes[i].node = n)
    => \A f \in Permutations(DOMAIN writes) :
          synthesize(ApplyWrites(state, [i \in DOMAIN writes |-> writes[f[i]]])).final_verdicts
             = synthesize(ApplyWrites(state, InTaskOrder(writes))).final_verdicts

\* C33 case: the branches completed in the order TechLead, Defense,
\* Prosecutor with three different scores, and the verdict of the first
\* criterion is the Tech Lead's score with the security override undone
C33_VerdictAfterReordering ==
    /\ pc = "judges"
    /\ Len(writes) = 3
    /\ writes[1].node = "tech_lead"
    /\ writes[2].node = "defense"
    /\ writes[3].node = "prosecutor"
    /\ \E verdicts \in { synthesize(ApplyWrites(state, writes)).final_verdicts } :
          /\ Len(verdicts) = Len(Rubric)
          /\ ApplyWrites(state, writes).criterion_judgments[1].opinions[1].judge
                = "TechLead"
          /\ verdicts[1].final_score
                = ApplyWrites(state, writes).criterion_judgments[1].opinions[1].score
          /\ verdicts[1].dissent_summary[1][2] # verdicts[1].dissent_summary[3][2]

\* C34: a RETRY decision of the evidence gate schedules the dispatcher and
\* with it all three collectors: the next evidence aggregation (and so the
\* next gate evaluation) is reached only after repo_investigator,
\* doc_analyst and vision_inspector have all returned again, and through
\* dispatch, fan-in and aggregation every evidence component keeps its
\* earlier value unless a collector of the new attempt supplies one, which
\* then replaces it.
C34_RetryRerunsAllCollectors ==
    [][ /\ (pc = "evidence_gate" /\ route' = "retry_detectives")
              => (pc' = "detective_dispatch" /\ state'.evidences = state.evidences)
        /\ (pc = "detective_dispatch")
              => (pc' = "detectives" /\ writes' = Empty
                  /\ state'.evidences = state.evidences)
        /\ (pc = "detectives" /\ pc' # "detectives")
              => /\ pc' = "evidence_aggregator"
                 /\ \A n \in {"repo_investigator", "doc_analyst", "vision_inspector"} :
                       \E i \in DOMAIN writes : writes[i].node = n
                 /\ \A c \in {"git", "code", "pdf", "images"} :
                       IF \E i \in DOMAIN writes :
                             /\ "evidences" \in DOMAIN writes[i].update
                             /\ writes[i].update.evidences[c] # None
                       THEN \E i \in DOMAIN writes :
                               /\ "evidences" \in DOMAIN writes[i].update
                               /\ state'.evidences[c] = writes[i].update.evidences[c]
                       ELSE state'.evidences[c] = state.evidences[c]
        /\ (pc = "detectives" /\ pc' = "detectives")
              => state'.evidences = state.evidences
        /\ (pc = "evidence_aggregator")
              => (pc' = "evidence_gate" /\ state'.evidences = state.evidences)
      ]_vars

\* C34 case: in a retry attempt all three collectors have returned again;
\* the repository collector, which had succeeded before, supplies a history
\* that differs from the one kept from the earlier attempt
C34_SucceededCollectorRanAgain ==
    /\ pc = "detectives"
    /\ route = "retry_detectives"
    /\ Len(writes) = 3
    /\ state.evidences.git # None
    /\ state.evidences.code # None
    /\ \E i \in DOMAIN writes :
          /\ writes[i].node = "repo_investigator"
          /\ "evidences" \in DOMAIN writes[i].update
          /\ writes[i].update.evidences.git # state.evidences.git

\* C35: a failure of the repository collector is fatal. The fan-in of an
\* attempt in which repo_investigator failed leaves repo_cloned false, the
\* aggregator keeps it, and the evidence gate that finds it false routes
\* ABORT and ends the run, with no judgments, verdicts or report, whatever
\* the error count; nothing runs after the end.
C35_CloneFailureAborts ==
    [][ /\ (/\ pc = "detectives" /\ pc' # "detectives"
            /\ \E i \in DOMAIN writes :
                  /\ writes[i].node = "repo_investigator"
                  /\ "evidence_errors" \in DOMAIN writes[i].update)
              => (pc' = "evidence_aggregator" /\ state'.repo_cloned = FALSE)
        /\ (pc = "evidence_aggregator")
              => (pc' = "evidence_gate" /\ state'.repo_cloned = state.repo_cloned)
        /\ (pc = "evidence_gate" /\ state.repo_cloned = FALSE)
              => /\ route' = "abort"
                 /\ pc' = "END"
                 /\ state'.criterion_judgments = Empty
                 /\ state'.final_verdicts = Empty
                 /\ state'.audit_report = None
                 /\ state'.report_path = None
        /\ (pc = "END") => FALSE
      ]_vars

\* C35 case: the repository collector succeeded in the first attempt and
\* failed in the retry; the run has ended with ABORT while the evidence of
\* the first attempt is held
C35_AbortedOnRetry ==
    /\ pc = "END"
    /\ route = "abort"
    /\ state.repo_cloned = FALSE
    /\ state.evidences.git # None
    /\ state.final_verdicts = Empty

\* C36: detective_attempts counts the evidence retries: it is 0 at the
\* start, every pass of the evidence gate that routes RETRY leaves it one
\* higher, a pass that routes PROCEED leaves it unchanged, and no other
\* step changes it.
C36_AttemptsCountRetries ==
    /\ Get(state, "detective_attempts", 0) = 0
    /\ [][ /\ (pc = "evidence_gate" /\ route' = "retry_detectives")
                 => Get(state', "detective_attempts", 0)
                       = Get(state, "detective_attempts", 0) + 1
           /\ (pc = "evidence_gate" /\ route' = "proceed_to_judges")
                 => Get(state', "detective_attempts", 0)
                       = Get(state, "detective_attempts", 0)
           /\ (pc # "evidence_gate")
                 => Get(state', "detective_attempts", 0)
                       = Get(state, "detective_attempts", 0)
         ]_vars

\* C37: the stages run in sequence. Every change of stage follows the
\* order evidence fan-out, aggregation, evidence gate, scoring fan-out,
\* judgment aggregator, synthesis, report assembly (with the gates' retry
\* and abort edges); synthesis starts only on the judgment gate's decision
\* to proceed, report assembly only from the finished synthesis, whose
\* verdicts and report are then in the state; and each of the two runs at
\* most once: when it starts, its result is not yet in the state, and the
\* run ends after the report assembly.
C37_StagesInSequence ==
    /\ [](/\ (pc = "chief_justice")
                => (state.final_verdicts = Empty /\ state.audit_report = None)
          /\ (pc = "report_generator")
                => (state.audit_report # None /\ state.report_path = None))
    /\ [][ /\ (pc' # pc)
                 => <<pc, pc'>> \in
                       { <<"detective_dispatch", "detectives">>,
                         <<"detectives", "evidence_aggregator">>,
                         <<"evidence_aggregator", "evidence_gate">>,
                         <<"evidence_gate", "detective_dispatch">>,
                         <<"evidence_gate", "judge_dispatch">>,
                         <<"evidence_gate", "END">>,
                         <<"judge_dispatch", "judges">>,
                         <<"judges", "judge_aggregator">>,
                         <<"judge_aggregator", "judge_dispatch">>,
                         <<"judge_aggregator", "chief_justice">>,
                         <<"chief_justice", "report_generator">>,
                         <<"report_generator", "END">> }
           /\ (pc' = "chief_justice" /\ pc # "chief_justice")
                 => (pc = "judge_aggregator" /\ route' = "proceed_to_justice")
           /\ (pc' = "report_generator" /\ pc # "report_generator")
                 => /\ pc = "chief_justice"
                    /\ Len(state'.final_verdicts) = Len(state.criterion_judgments)
                    /\ state'.audit_report # None
           /\ (pc \in {"chief_justice", "report_generator"}) => pc' # pc
           /\ (pc = "END") => FALSE
         ]_vars

\* C37 case: the run has passed synthesis and report assembly and ended
\* with one verdict per criterion and the path of the written report
C37_RunCompleted ==
    /\ pc = "END"
    /\ route = "proceed_to_justice"
    /\ Len(state.final_verdicts) = Len(Rubric)
    /\ state.audit_report # None
    /\ state.report_path # None

(***************************************************************************)
(* The remediation plan on its own: RemedySpec applies                     *)
(* _generate_remediation to every final score, every criterion of the      *)
(* rubric and opinions that are present or absent; the Prosecutor's        *)
(* argument is short or longer than the excerpt, and it cites from no item *)
(* up to one more than the cross-reference line takes.                     *)
(***************************************************************************)
\* the items a Prosecutor opinion may cite, in the order it cites them
CitedItems ==
    << <<"git_commits">>, <<"graph_structure">>, <<"state_models">>, <<"pdf_text">> >>

RemedyInit ==
    /\ Idle
    /\ arg \in UNION {
          {[fn |-> "generate_remediation", criterion_id |-> id,
            score |-> sc, prosecutor |-> p, defense |-> d, tech_lead |-> t] :
              sc \in Scores,
              p \in {None} \cup
                    {[judge |-> "Prosecutor", criterion_id |-> id,
                      score |-> 1, argument |-> a,
                      cited_evidence |-> SubSeq(CitedItems, 1, n),
                      confidence |-> 9] :
                        a \in { <<"incomplete">>,
                                [k \in 1..(RemediationExcerpt + 1) |-> "x"] },
                        n \in 0..(MaxCrossRef + 1)},
              d \in {None,
                     [judge |-> "Defense", criterion_id |-> id,
                      score |-> 5, argument |-> <<"good effort">>,
                      cited_evidence |-> Empty, confidence |-> 8]},
              t \in {None,
                     [judge |-> "TechLead", criterion_id |-> id,
                      score |-> 3, argument |-> <<"works">>,
                      cited_evidence |-> Empty, confidence |-> 7]}} :
          id \in {Rubric[c].id : c \in DOMAIN Rubric} }
    /\ ret = None

GenerateRemediation ==
    /\ ret = None
    /\ arg.fn = "generate_remediation"
    /\ ret' = [remediation_plan |->
                  generate_remediation(arg.criterion_id, arg.score, arg.prosecutor,
                                       arg.defense, arg.tech_lead)]
    /\ UNCHANGED <<state, pc, writes, route, arg>>

RemedyNext == GenerateRemediation

RemedySpec == RemedyInit /\ [][RemedyNext]_vars

\* C38: the remediation plan follows the final score. At most 2: the
\* Prosecutor's critique cut to the excerpt, then the rubric's instruction
\* if the criterion has one; exactly 3: the Tech Lead's advice; 4 or more:
\* the Defense's suggestion; each only if that persona's opinion exists. In
\* every bucket the plan ends with a cross-reference line holding the first
\* 3 items the Prosecutor cited (all of them if fewer) exactly when a
\* Prosecutor opinion exists and cites something; the plan has no other
\* step.
C38_RemediationByScore ==
    (ret # None /\ arg.fn = "generate_remediation") =>
        LET p == arg.prosecutor
            plan == ret.remediation_plan
            crossed == p # None /\ p.cited_evidence # Empty
            instructed == "forensic_instruction" \in DOMAIN RubricCriterion(arg.criterion_id)
            steps == IF crossed THEN SubSeq(plan, 1, Len(plan) - 1) ELSE plan
        IN  /\ crossed =>
                  /\ plan # Empty
                  /\ plan[Len(plan)][1] = "Review evidence"
                  /\ Len(plan[Len(plan)][2]) <= 3
                  /\ Len(plan[Len(plan)][2]) \in {3, Len(p.cited_evidence)}
                  /\ \A k \in DOMAIN plan[Len(plan)][2] :
                        plan[Len(plan)][2][k] = p.cited_evidence[k]
            /\ \A k \in DOMAIN steps : steps[k][1] # "Review evidence"
            /\ IF arg.score <= 2
               THEN IF p = None THEN steps = Empty
                    ELSE /\ Len(steps) = IF instructed THEN 2 ELSE 1
                         /\ steps[1][1] = "Critical"
                         /\ Len(steps[1][2]) <= 200
                         /\ \A k \in DOMAIN steps[1][2] : steps[1][2][k] = p.argument[k]
                         /\ Len(steps[1][2]) \in {200, Len(p.argument)}
                         /\ instructed =>
                               steps[2] = <<"Implement",
                                            RubricCriterion(arg.criterion_id).forensic_instruction>>
               ELSE IF arg.score = 3
               THEN IF arg.tech_lead = None THEN steps = Empty
                    ELSE steps = << <<"Refine", arg.tech_lead.argument>> >>
               ELSE IF arg.defense = None THEN steps = Empty
                    ELSE steps = << <<"Polish", arg.defense.argument>> >>

\* C38 case: a final score of 2 with a Prosecutor whose argument is longer
\* than the excerpt and who cites four items: critique, instruction and a
\* cross-reference line of three items
C38_CriticalWithCrossReference ==
    /\ ret # None
    /\ arg.fn = "generate_remediation"
    /\ arg.score = 2
    /\ arg.prosecutor # None
    /\ Len(arg.prosecutor.argument) > RemediationExcerpt
    /\ Len(arg.prosecutor.cited_evidence) > MaxCrossRef
    /\ Len(ret.remediation_plan) = 3
    /\ Len(ret.remediation_plan[1][2]) = RemediationExcerpt
    /\ Len(ret.remediation_plan[3][2]) = MaxCrossRef

(***************************************************************************)
(* The artifacts of several runs of one process: in PersistSpec the runs   *)
(* of a batch reach synthesize in any order while the clock advances, and  *)
(* each one persists its report under the paths _persist_reports derives   *)
(* from the report's timestamp.                                            *)
(***************************************************************************)
\* the clock after its next tick
Tock(now) ==
    IF now.microsecond + 1 < TicksPerSecond
    THEN [now EXCEPT !.microsecond = @ + 1]
    ELSE [second |-> now.second + 1, microsecond |-> 0]

\* AuditReport(repo_url=...): timestamp is filled by its default factory
AuditReport(repo_url, now) == [repo_url |-> repo_url, timestamp |-> now]

\* the paths in the dict _persist_reports returns
ArtifactPaths(artifacts) == {artifacts[k].path : k \in DOMAIN artifacts}

PersistInit ==
    /\ \E n \in 1..MaxBatch :
          state = [now |-> RunInstant,
                   runs |-> [i \in 1..n |->
                               [at |-> "chief_justice", repo_url |-> RepoUrl(i),
                                audit_report |-> None, report_artifacts |-> None]],
                   files |-> {}]
    /\ pc = "gather"
    /\ writes = Empty
    /\ route = "none"
    /\ arg = None
    /\ ret = None

\* time passes while the runs work
Tick ==
    /\ pc = "gather"
    /\ state.now.second < MaxSeconds
    /\ state' = [state EXCEPT !.now = Tock(@)]
    /\ UNCHANGED <<pc, writes, route, arg, ret>>

\* the end of synthesize in run i: the report is built and its artifacts
\* are written, replacing what a path held
PersistReports ==
    \E i \in DOMAIN state.runs :
    /\ pc = "gather"
    /\ state.runs[i].at = "chief_justice"
    /\ \E report \in { AuditReport(state.runs[i].repo_url, state.now) } :
       \E artifacts \in { persist_reports(report) } :
          state' =
             [state EXCEPT
                !.runs[i] = [@ EXCEPT !.at = "report_generator",
                                      !.audit_report = report,
                                      !.report_artifacts = artifacts],
                !.files = {f \in @ : f.path \notin ArtifactPaths(artifacts)}
                          \cup {[path |-> q, of |-> report.repo_url] :
                                  q \in ArtifactPaths(artifacts)}]
    /\ UNCHANGED <<pc, writes, route, arg, ret>>

PersistNext == Tick \/ PersistReports

PersistSpec == PersistInit /\ [][PersistNext]_vars

\* C39: the artifacts of distinct runs never collide: two runs of the
\* process that have persisted their reports wrote to disjoint sets of
\* paths, and every run's artifacts still hold that run's report.
C39_ArtifactPathsDistinct ==
    \A i, j \in DOMAIN state.runs :
        (/\ i # j
         /\ state.runs[i].report_artifacts # None
         /\ state.runs[j].report_artifacts # None)
        => /\ ArtifactPaths(state.runs[i].report_artifacts)
                 \cap ArtifactPaths(state.runs[j].report_artifacts) = {}
           /\ \A q \in ArtifactPaths(state.runs[i].report_artifacts) :
                 [path |-> q, of |-> state.runs[i].repo_url] \in state.files
====
